---- MODULE Spec2Model ----
(***************************************************************************)
(* Quiz storage, synchronisation and deduplication of dist/index.js        *)
(* (class MemStorage), as a state machine.                                 *)
(*                                                                         *)
(* A quiz object is a function from field names to values; a field the    *)
(* JavaScript object does not carry is a field outside the function's      *)
(* DOMAIN.  Strings that the code lower-cases, trims, sorts or serialises  *)
(* (title, question, options, correctAnswer) are sequences of one-character*)
(* strings; uniqueId is only compared with === and tested for truthiness   *)
(* and is a plain string ("" is the falsy one).  version 0 is the falsy    *)
(* version; createdAt is a Date given by its getTime() value.              *)
(***************************************************************************)
EXTENDS Integers, Sequences, FiniteSets, TLC

VARIABLES quizCollection, quizCurrentId, last, probe

vars == <<quizCollection, quizCurrentId, last, probe>>

---------------------------------------------------------------------------
(* Bounds of the model *)

MaxQuizzes == 2
MaxBatch == 2
MaxVersion == 2
MaxDedupQuizzes == 3
MaxTie == 2
MaxQuestions == 2
MaxCallers == 2

---------------------------------------------------------------------------
(* JavaScript values and object helpers *)

Has(q, f) == f \in DOMAIN q

\* q.f, or the falsy default where the object carries no such field
Field(q, f, dflt) == IF Has(q, f) THEN q[f] ELSE dflt

\* { ...a, ...b }
Spread(a, b) ==
  [f \in DOMAIN a \cup DOMAIN b |-> IF f \in DOMAIN b THEN b[f] ELSE a[f]]

UniqueIdOf(q) == Field(q, "uniqueId", "")
VersionOf(q) == Field(q, "version", 0)
CreatedAtOf(q) == Field(q, "createdAt", 0)

\* quiz.isPublic === true
IsPublicTrue(q) == Has(q, "isPublic") /\ q.isPublic = TRUE

\* uuidv4(): a string no client supplies, different for every id assigned
uuidv4(id) == "uuid-" \o ToString(id)

---------------------------------------------------------------------------
(* MemStorage: the Map quizCollection in iteration (insertion) order *)

Ids(coll) == {coll[i].id : i \in 1..Len(coll)}

\* Map.get(id): the index of the entry, 0 when there is none
IndexOfId(coll, id) ==
  IF \E i \in 1..Len(coll) : coll[i].id = id
  THEN CHOOSE i \in 1..Len(coll) : coll[i].id = id
  ELSE 0

\* Map.set(id, quiz): an existing key keeps its position, a new one is appended
MapSet(coll, id, quiz) ==
  IF IndexOfId(coll, id) = 0 THEN Append(coll, quiz)
  ELSE [coll EXCEPT ![IndexOfId(coll, id)] = quiz]

\* Map.delete(id)
MapDelete(coll, id) == SelectSeq(coll, LAMBDA q : q.id # id)

\* faulty variant of getQuizByUniqueId: no record is ever found
getQuizByUniqueIdMisses(coll, uniqueId) == 0

\* Array.from(values()).find(quiz => quiz.uniqueId === uniqueId): index or 0
getQuizByUniqueId(coll, uniqueId) ==
  IF \E i \in 1..Len(coll) : UniqueIdOf(coll[i]) = uniqueId
  THEN CHOOSE i \in 1..Len(coll) :
         /\ UniqueIdOf(coll[i]) = uniqueId
         /\ \A j \in 1..(i - 1) : UniqueIdOf(coll[j]) # uniqueId
  ELSE 0

getPublicQuizzes(coll) == SelectSeq(coll, IsPublicTrue)

\* faulty variant of NewQuiz: every new record starts at version 1, the
\* submitted version is dropped
NewQuizVersionOne(quiz, id, now) ==
  Spread(
    Spread(quiz, [uniqueId |-> IF UniqueIdOf(quiz) = "" THEN uuidv4(id)
                               ELSE quiz.uniqueId]),
    [id |-> id,
     createdAt |-> IF CreatedAtOf(quiz) # 0 THEN quiz.createdAt ELSE now,
     version |-> 1,
     password |-> Field(quiz, "password", "null")])

\* the record createQuiz stores under the id it assigns
NewQuiz(quiz, id, now) ==
  Spread(
    Spread(quiz, [uniqueId |-> IF UniqueIdOf(quiz) = "" THEN uuidv4(id)
                               ELSE quiz.uniqueId]),
    [id |-> id,
     createdAt |-> IF CreatedAtOf(quiz) # 0 THEN quiz.createdAt ELSE now,
     version |-> IF VersionOf(quiz) # 0 THEN quiz.version ELSE 1,
     password |-> Field(quiz, "password", "null")])

\* faulty variant of createQuiz: the id is the size of the collection plus 1
createQuizSizeId(st, quiz, now) ==
  [coll |-> MapSet(st.coll, Len(st.coll) + 1,
                   NewQuiz(quiz, Len(st.coll) + 1, now)),
   nextId |-> st.nextId + 1]

\* createQuiz on a store st = [coll, nextId]
createQuiz(st, quiz, now) ==
  [coll |-> MapSet(st.coll, st.nextId, NewQuiz(quiz, st.nextId, now)),
   nextId |-> st.nextId + 1]

\* faulty variant of UpdatedQuiz: the version is not touched
UpdatedQuizKeepsVersion(existingQuiz, quizUpdate) ==
  Spread(Spread(existingQuiz, quizUpdate),
         [version |-> VersionOf(existingQuiz)])

\* faulty variant of UpdatedQuiz: the version is computed before the update
\* is spread over it, so a version in the update wins
UpdatedQuizPayloadVersion(existingQuiz, quizUpdate) ==
  Spread(Spread(existingQuiz,
                [version |-> IF VersionOf(existingQuiz) # 0
                             THEN existingQuiz.version + 1 ELSE 1]),
         quizUpdate)

\* the record updateQuiz writes over an existing one
UpdatedQuiz(existingQuiz, quizUpdate) ==
  Spread(Spread(existingQuiz, quizUpdate),
         [version |-> IF VersionOf(existingQuiz) # 0
                      THEN existingQuiz.version + 1 ELSE 1])

\* faulty variant of updateQuiz: a miss stores the update under the id
updateQuizUpsert(coll, id, quizUpdate) ==
  IF IndexOfId(coll, id) = 0
  THEN MapSet(coll, id, UpdatedQuiz([id |-> id], quizUpdate))
  ELSE MapSet(coll, id, UpdatedQuiz(coll[IndexOfId(coll, id)], quizUpdate))

\* updateQuiz on a collection: a miss changes nothing
updateQuiz(coll, id, quizUpdate) ==
  IF IndexOfId(coll, id) = 0 THEN coll
  ELSE MapSet(coll, id, UpdatedQuiz(coll[IndexOfId(coll, id)], quizUpdate))

deleteQuiz(coll, id) == MapDelete(coll, id)

\* deletePrivateQuizzes: every entry with a falsy isPublic is deleted by its id
RECURSIVE DeleteAll(_, _, _)
DeleteAll(coll, victims, i) ==
  IF i > Len(victims) THEN coll
  ELSE DeleteAll(MapDelete(coll, victims[i].id), victims, i + 1)

\* faulty variant of deletePrivateQuizzes: the sweep stops after one deletion
deletePrivateQuizzesFirstOnly(coll) ==
  LET privateQuizzes == SelectSeq(coll, LAMBDA q : ~IsPublicTrue(q))
  IN  IF privateQuizzes = <<>> THEN coll
      ELSE MapDelete(coll, privateQuizzes[1].id)

deletePrivateQuizzes(coll) ==
  DeleteAll(coll, SelectSeq(coll, LAMBDA q : ~IsPublicTrue(q)), 1)

---------------------------------------------------------------------------
(* MemStorage.syncQuizzes *)

\* faulty variant of SkipsEntry: no entry is skipped
SkipsEntryNever(quizToSync) == FALSE

\* if (!quizToSync.uniqueId) continue
SkipsEntry(quizToSync) == UniqueIdOf(quizToSync) = ""

\* first loop: the public entries, in batch order
RECURSIVE SyncPublicLoop(_, _, _, _)
SyncPublicLoop(st, publicQuizzesToSync, i, now) ==
  IF i > Len(publicQuizzesToSync) THEN st
  ELSE LET quizToSync == publicQuizzesToSync[i]
           existing == getQuizByUniqueId(st.coll, UniqueIdOf(quizToSync))
       IN  IF SkipsEntry(quizToSync)
           THEN SyncPublicLoop(st, publicQuizzesToSync, i + 1, now)
           ELSE IF existing # 0
           THEN SyncPublicLoop(
                  [st EXCEPT !.coll =
                     updateQuiz(st.coll, st.coll[existing].id, quizToSync)],
                  publicQuizzesToSync, i + 1, now)
           ELSE SyncPublicLoop(createQuiz(st, quizToSync, now),
                               publicQuizzesToSync, i + 1, now)

\* second loop: every non-public entry with a uniqueId deletes the record
\* getQuizByUniqueId finds for it
RECURSIVE SyncPrivateLoop(_, _, _)
SyncPrivateLoop(coll, quizzesToSync, i) ==
  IF i > Len(quizzesToSync) THEN coll
  ELSE LET quizToSync == quizzesToSync[i]
           existing == getQuizByUniqueId(coll, UniqueIdOf(quizToSync))
       IN  IF ~IsPublicTrue(quizToSync) /\ UniqueIdOf(quizToSync) # ""
              /\ existing # 0
           THEN SyncPrivateLoop(deleteQuiz(coll, coll[existing].id),
                                quizzesToSync, i + 1)
           ELSE SyncPrivateLoop(coll, quizzesToSync, i + 1)

\* faulty variant of syncQuizzes: the duplicates are removed before returning
syncQuizzesWithCleanup(st, quizzesToSync, now) ==
  LET afterPublic ==
        SyncPublicLoop(st, SelectSeq(quizzesToSync, IsPublicTrue), 1, now)
      afterPrivate == SyncPrivateLoop(afterPublic.coll, quizzesToSync, 1)
      kept == SelectSeq(afterPrivate, IsPublicTrue)
  IN  [coll |-> SelectSeq(kept, LAMBDA q :
                  \A j \in 1..Len(kept) :
                    (UniqueIdOf(kept[j]) = UniqueIdOf(q)) => kept[j].id >= q.id),
       nextId |-> afterPublic.nextId]

syncQuizzes(st, quizzesToSync, now) ==
  LET afterPublic ==
        SyncPublicLoop(st, SelectSeq(quizzesToSync, IsPublicTrue), 1, now)
      afterPrivate == SyncPrivateLoop(afterPublic.coll, quizzesToSync, 1)
  IN  [coll |-> deletePrivateQuizzes(afterPrivate),
       nextId |-> afterPublic.nextId]

---------------------------------------------------------------------------
(* Strings: String.prototype.toLowerCase, trim, localeCompare,             *)
(* Array.prototype.sort, join and JSON.stringify over the characters       *)
(* " ", "|", "a", "b", "A", "B"                                            *)

Lower(c) == CASE c = "A" -> "a" [] c = "B" -> "b" [] OTHER -> c

toLowerCase(s) == [i \in 1..Len(s) |-> Lower(s[i])]

RECURSIVE trimStart(_)
trimStart(s) ==
  IF s # <<>> /\ Head(s) = " " THEN trimStart(Tail(s)) ELSE s

RECURSIVE trimEnd(_)
trimEnd(s) ==
  IF s # <<>> /\ s[Len(s)] = " " THEN trimEnd(SubSeq(s, 1, Len(s) - 1)) ELSE s

trim(s) == trimEnd(trimStart(s))

\* x.toLowerCase().trim()
Normalized(s) == trim(toLowerCase(s))

\* UTF-16 code units, the order of the default Array.prototype.sort
CodeUnit(c) ==
  CASE c = " " -> 32 [] c = "A" -> 65 [] c = "B" -> 66
    [] c = "a" -> 97 [] c = "b" -> 98 [] c = "|" -> 124

\* collation order of localeCompare on lower-cased text: white space, then
\* punctuation, then letters
CollationRank(c) ==
  CASE c = " " -> 1 [] c = "|" -> 2 [] c = "a" -> 3 [] c = "A" -> 4
    [] c = "b" -> 5 [] c = "B" -> 6

\* s before t in the lexicographic order of Rank
LexLess(s, t, Rank(_)) ==
  \E k \in 1..Len(t) :
    /\ k <= Len(s) + 1
    /\ \A m \in 1..(k - 1) : s[m] = t[m]
    /\ (k = Len(s) + 1 \/ Rank(s[k]) < Rank(t[k]))

CodeUnitLess(s, t) == LexLess(s, t, CodeUnit)

\* a.localeCompare(b) < 0
localeCompareLess(s, t) == LexLess(s, t, CollationRank)

\* strings.sort(): insertion of x into a sorted sequence of strings, after
\* every element that is not greater than it
RECURSIVE InsertString(_, _)
InsertString(sorted, x) ==
  IF sorted = <<>> THEN <<x>>
  ELSE IF CodeUnitLess(x, Head(sorted)) THEN <<x>> \o sorted
  ELSE <<Head(sorted)>> \o InsertString(Tail(sorted), x)

\* strings.sort(): the first n strings, by code units
RECURSIVE SortStringsUpTo(_, _)
SortStringsUpTo(strs, n) ==
  IF n = 0 THEN <<>>
  ELSE InsertString(SortStringsUpTo(strs, n - 1), strs[n])

sortStrings(strs) == SortStringsUpTo(strs, Len(strs))

\* strings.join("|")
RECURSIVE join(_)
join(strs) ==
  IF strs = <<>> THEN <<>>
  ELSE IF Len(strs) = 1 THEN strs[1]
  ELSE strs[1] \o <<"|">> \o join(Tail(strs))

\* a JSON string literal: the quote and the backslash are escaped
RECURSIVE JsonEscape(_)
JsonEscape(s) ==
  IF s = <<>> THEN <<>>
  ELSE (IF Head(s) \in {"\"", "\\"} THEN <<"\\", Head(s)>> ELSE <<Head(s)>>)
       \o JsonEscape(Tail(s))

JsonString(s) == <<"\"">> \o JsonEscape(s) \o <<"\"">>

\* JSON.stringify of one { question, options, correctAnswer } object
JsonObject(qd) ==
  <<"{", "\"question\"", ":">> \o JsonString(qd.question)
  \o <<",", "\"options\"", ":">> \o JsonString(qd.options)
  \o <<",", "\"correctAnswer\"", ":">> \o JsonString(qd.correctAnswer)
  \o <<"}">>

RECURSIVE JsonElements(_)
JsonElements(qds) ==
  IF qds = <<>> THEN <<>>
  ELSE IF Len(qds) = 1 THEN JsonObject(qds[1])
  ELSE JsonObject(qds[1]) \o <<",">> \o JsonElements(Tail(qds))

\* JSON.stringify(questionsData)
JsonStringify(qds) == <<"[">> \o JsonElements(qds) \o <<"]">>

---------------------------------------------------------------------------
(* createContentHash *)

\* the object questions.map builds for one question
\* faulty variant of QuestionData: the options are joined as they come
QuestionDataUnsortedOptions(q) ==
  [question |-> Normalized(q.question),
   options |-> join([i \in 1..Len(q.options) |-> Normalized(q.options[i])]),
   correctAnswer |-> Normalized(q.correctAnswer)]

QuestionData(q) ==
  [question |-> Normalized(q.question),
   options |-> join(sortStrings([i \in 1..Len(q.options) |->
                                   Normalized(q.options[i])])),
   correctAnswer |-> Normalized(q.correctAnswer)]

\* the comparator (a, b) => a.question.localeCompare(b.question) is negative
QuestionLess(a, b) == localeCompareLess(a.question, b.question)

\* the sort is stable: an object goes after every one that is not greater
RECURSIVE InsertQuestionData(_, _)
InsertQuestionData(sorted, x) ==
  IF sorted = <<>> THEN <<x>>
  ELSE IF QuestionLess(x, Head(sorted)) THEN <<x>> \o sorted
  ELSE <<Head(sorted)>> \o InsertQuestionData(Tail(sorted), x)

RECURSIVE SortQuestionsUpTo(_, _)
SortQuestionsUpTo(qds, n) ==
  IF n = 0 THEN <<>>
  ELSE InsertQuestionData(SortQuestionsUpTo(qds, n - 1), qds[n])

\* questionsData.sort((a, b) => a.question.localeCompare(b.question))
SortQuestionsData(qds) == SortQuestionsUpTo(qds, Len(qds))

createContentHash(quiz) ==
  LET titleNormalized == Normalized(quiz.title)
      questionsData ==
        SortQuestionsData([i \in 1..Len(quiz.questions) |->
                             QuestionData(quiz.questions[i])])
  IN  titleNormalized \o <<":", ToString(Len(questionsData)), ":">>
      \o JsonStringify(questionsData)

---------------------------------------------------------------------------
(* removeDuplicateQuizzes *)

\* quiz.version && existing.version && quiz.version > existing.version ||
\* quiz.createdAt && existing.createdAt && getTime(quiz) > getTime(existing)
\* faulty variant of keepNew: versions that differ decide alone
keepNewVersionDecides(quiz, existingQuiz) ==
  IF /\ VersionOf(quiz) # 0
     /\ VersionOf(existingQuiz) # 0
     /\ VersionOf(quiz) # VersionOf(existingQuiz)
  THEN VersionOf(quiz) > VersionOf(existingQuiz)
  ELSE /\ CreatedAtOf(quiz) # 0
       /\ CreatedAtOf(existingQuiz) # 0
       /\ CreatedAtOf(quiz) > CreatedAtOf(existingQuiz)

keepNew(quiz, existingQuiz) ==
  \/ /\ VersionOf(quiz) # 0
     /\ VersionOf(existingQuiz) # 0
     /\ VersionOf(quiz) > VersionOf(existingQuiz)
  \/ /\ CreatedAtOf(quiz) # 0
     /\ CreatedAtOf(existingQuiz) # 0
     /\ CreatedAtOf(quiz) > CreatedAtOf(existingQuiz)

\* Map.set on a Map given as a function
MapPut(m, k, v) == [x \in DOMAIN m \cup {k} |-> IF x = k THEN v ELSE m[x]]

EmptyMap == <<>>

\* faulty variant of ReplaceExisting: the replaced record is not marked
ReplaceExistingUnmarked(ps, key, quiz) ==
  [map |-> MapPut(ps.map, key, quiz),
   keep |-> (ps.keep \ {ps.map[key].id}) \cup {quiz.id},
   removed |-> ps.removed]

\* faulty variant of ReplaceExisting: the replaced record is marked but
\* stays among the kept ids
ReplaceExistingStillKept(ps, key, quiz) ==
  [map |-> MapPut(ps.map, key, quiz),
   keep |-> ps.keep \cup {quiz.id},
   removed |-> Append(ps.removed, ps.map[key])]

\* the newer record replaces the one the map holds under key; the replaced
\* record is marked for removal
ReplaceExisting(ps, key, quiz) ==
  [map |-> MapPut(ps.map, key, quiz),
   keep |-> (ps.keep \ {ps.map[key].id}) \cup {quiz.id},
   removed |-> Append(ps.removed, ps.map[key])]

\* Pass 1: one record per uniqueId.  ps = [map, keep, removed]
RECURSIVE Pass1(_, _, _)
Pass1(allQuizzes, i, ps) ==
  IF i > Len(allQuizzes) THEN ps
  ELSE LET quiz == allQuizzes[i]
           uid == UniqueIdOf(quiz)
       IN  IF uid = ""
           THEN Pass1(allQuizzes, i + 1,
                      [ps EXCEPT !.keep = @ \cup {quiz.id}])
           ELSE IF uid \notin DOMAIN ps.map
           THEN Pass1(allQuizzes, i + 1,
                      [ps EXCEPT !.map = MapPut(@, uid, quiz),
                                 !.keep = @ \cup {quiz.id}])
           ELSE IF keepNew(quiz, ps.map[uid])
           THEN Pass1(allQuizzes, i + 1, ReplaceExisting(ps, uid, quiz))
           ELSE Pass1(allQuizzes, i + 1,
                      [ps EXCEPT !.removed = Append(@, quiz)])

\* Pass 2: one record per content hash among the kept ones without uniqueId
RECURSIVE Pass2(_, _, _)
Pass2(allQuizzes, i, ps) ==
  IF i > Len(allQuizzes) THEN ps
  ELSE LET quiz == allQuizzes[i]
           contentHash == createContentHash(quiz)
       IN  IF quiz.id \notin ps.keep \/ UniqueIdOf(quiz) # ""
           THEN Pass2(allQuizzes, i + 1, ps)
           ELSE IF contentHash \notin DOMAIN ps.map
           THEN Pass2(allQuizzes, i + 1,
                      [ps EXCEPT !.map = MapPut(@, contentHash, quiz)])
           ELSE IF keepNew(quiz, ps.map[contentHash])
           THEN Pass2(allQuizzes, i + 1,
                      ReplaceExisting(ps, contentHash, quiz))
           ELSE Pass2(allQuizzes, i + 1,
                      [ps EXCEPT !.keep = @ \ {quiz.id},
                                 !.removed = Append(@, quiz)])

\* titleMap: the kept records grouped by normalized title, the groups in the
\* order their titles first occur
RECURSIVE TitleGroups(_, _, _, _)
TitleGroups(allQuizzes, i, uniqueQuizIds, groups) ==
  IF i > Len(allQuizzes) THEN groups
  ELSE LET quiz == allQuizzes[i]
           normalizedTitle == Normalized(quiz.title)
           at == IF \E g \in 1..Len(groups) : groups[g].title = normalizedTitle
                 THEN CHOOSE g \in 1..Len(groups) :
                        groups[g].title = normalizedTitle
                 ELSE 0
       IN  IF quiz.id \notin uniqueQuizIds
           THEN TitleGroups(allQuizzes, i + 1, uniqueQuizIds, groups)
           ELSE IF at = 0
           THEN TitleGroups(allQuizzes, i + 1, uniqueQuizIds,
                  Append(groups, [title |-> normalizedTitle,
                                  quizzes |-> <<quiz>>]))
           ELSE TitleGroups(allQuizzes, i + 1, uniqueQuizIds,
                  [groups EXCEPT ![at].quizzes = Append(@, quiz)])

\* q1 matches q2: same normalized question or same normalized correctAnswer
QuestionsMatch(q1, q2) ==
  \/ Normalized(q1.question) = Normalized(q2.question)
  \/ Normalized(q1.correctAnswer) = Normalized(q2.correctAnswer)

\* faulty variant of matchCount: the questions of quiz2 are the ones counted
matchCountOfSecond(quiz1, quiz2) ==
  Cardinality({j \in 1..Len(quiz2.questions) :
                 \E i \in 1..Len(quiz1.questions) :
                   QuestionsMatch(quiz1.questions[i], quiz2.questions[j])})

\* the number of questions of quiz1 that match some question of quiz2
matchCount(quiz1, quiz2) ==
  Cardinality({i \in 1..Len(quiz1.questions) :
                 \E j \in 1..Len(quiz2.questions) :
                   QuestionsMatch(quiz1.questions[i], quiz2.questions[j])})

Min(a, b) == IF a <= b THEN a ELSE b
Abs(a) == IF a < 0 THEN -a ELSE a

\* faulty variant of Comparable: the uniqueIds are not looked at
ComparableWhateverUniqueIds(quiz1, quiz2) ==
  /\ Has(quiz1, "questions") /\ Has(quiz2, "questions")
  /\ Abs(Len(quiz1.questions) - Len(quiz2.questions)) <= 1

\* the pair is compared: not two different uniqueIds, and question counts
\* that differ by at most one
Comparable(quiz1, quiz2) ==
  /\ ~(UniqueIdOf(quiz1) # "" /\ UniqueIdOf(quiz2) # ""
       /\ UniqueIdOf(quiz1) # UniqueIdOf(quiz2))
  /\ Has(quiz1, "questions") /\ Has(quiz2, "questions")
  /\ Abs(Len(quiz1.questions) - Len(quiz2.questions)) <= 1

\* faulty variant of SimilarEnough: matchCount must pass the threshold
SimilarEnoughStrict(quiz1, quiz2) ==
  10 * matchCount(quiz1, quiz2)
    > 8 * Min(Len(quiz1.questions), Len(quiz2.questions))

\* matchCount >= Math.min(length1, length2) * 0.8, in tenths
SimilarEnough(quiz1, quiz2) ==
  10 * matchCount(quiz1, quiz2)
    >= 8 * Min(Len(quiz1.questions), Len(quiz2.questions))

\* faulty variant of Pass3Group: the inner loop is left after either removal
RECURSIVE Pass3GroupAlwaysBreaks(_, _, _, _)
Pass3GroupAlwaysBreaks(group, i, j, fs) ==
  IF i > Len(group) THEN fs
  ELSE IF group[i].id \notin fs.final \/ j > Len(group)
  THEN Pass3GroupAlwaysBreaks(group, i + 1, i + 2, fs)
  ELSE LET quiz1 == group[i]
           quiz2 == group[j]
       IN  IF quiz2.id \notin fs.final
              \/ ~Comparable(quiz1, quiz2)
              \/ ~SimilarEnough(quiz1, quiz2)
           THEN Pass3GroupAlwaysBreaks(group, i, j + 1, fs)
           ELSE IF keepNew(quiz1, quiz2)
           THEN Pass3GroupAlwaysBreaks(group, i + 1, i + 2,
                  [final |-> fs.final \ {quiz2.id},
                   removed |-> Append(fs.removed, quiz2)])
           ELSE Pass3GroupAlwaysBreaks(group, i + 1, i + 2,
                  [final |-> fs.final \ {quiz1.id},
                   removed |-> Append(fs.removed, quiz1)])

\* Pass 3 on one title group: the loops over i and j > i.  fs = [final, removed]
RECURSIVE Pass3Group(_, _, _, _)
Pass3Group(group, i, j, fs) ==
  IF i > Len(group) THEN fs
  ELSE IF group[i].id \notin fs.final \/ j > Len(group)
  THEN Pass3Group(group, i + 1, i + 2, fs)
  ELSE LET quiz1 == group[i]
           quiz2 == group[j]
       IN  IF quiz2.id \notin fs.final
              \/ ~Comparable(quiz1, quiz2)
              \/ ~SimilarEnough(quiz1, quiz2)
           THEN Pass3Group(group, i, j + 1, fs)
           ELSE IF keepNew(quiz1, quiz2)
           THEN Pass3Group(group, i, j + 1,
                  [final |-> fs.final \ {quiz2.id},
                   removed |-> Append(fs.removed, quiz2)])
           ELSE Pass3Group(group, i + 1, i + 2,
                  [final |-> fs.final \ {quiz1.id},
                   removed |-> Append(fs.removed, quiz1)])

RECURSIVE Pass3(_, _, _)
Pass3(groups, g, fs) ==
  IF g > Len(groups) THEN fs
  ELSE IF Len(groups[g].quizzes) > 1
  THEN Pass3(groups, g + 1, Pass3Group(groups[g].quizzes, 1, 2, fs))
  ELSE Pass3(groups, g + 1, fs)

\* the final loop: delete every record of duplicatesRemoved, counting the
\* deletions that removed something
RECURSIVE DeleteDuplicates(_, _, _)
DeleteDuplicates(res, duplicatesRemoved, i) ==
  IF i > Len(duplicatesRemoved) THEN res
  ELSE DeleteDuplicates(
         [coll |-> MapDelete(res.coll, duplicatesRemoved[i].id),
          count |-> IF IndexOfId(res.coll, duplicatesRemoved[i].id) # 0
                    THEN res.count + 1 ELSE res.count],
         duplicatesRemoved, i + 1)

\* uniqueQuizIds and duplicatesRemoved after the first loop
PlanAfterPass1(allQuizzes) ==
  Pass1(allQuizzes, 1, [map |-> EmptyMap, keep |-> {}, removed |-> <<>>])

\* the same after the second loop, which fills contentHashMap
PlanAfterPass2(allQuizzes) ==
  Pass2(allQuizzes, 1, [PlanAfterPass1(allQuizzes) EXCEPT !.map = EmptyMap])

\* the removal plan: what the three passes keep and mark
DuplicatePlan(allQuizzes) ==
  LET p2 == PlanAfterPass2(allQuizzes)
      p3 == Pass3(TitleGroups(allQuizzes, 1, p2.keep, <<>>), 1,
                  [final |-> p2.keep, removed |-> p2.removed])
  IN  p3

\* removeDuplicateQuizzes on a collection: [coll, count]
removeDuplicateQuizzes(coll) ==
  DeleteDuplicates([coll |-> coll, count |-> 0],
                   DuplicatePlan(coll).removed, 1)

---------------------------------------------------------------------------
(* Inputs *)

Times == {1}

NoQuestions == <<>>

TitleA == <<"a">>
TitleB == <<"b">>

\* bodies of POST /api/quizzes as the schema lets them through
CreateInputs ==
  { [uniqueId |-> "u1", title |-> TitleB, questions |-> NoQuestions,
     isPublic |-> TRUE],
    [uniqueId |-> "u2", title |-> TitleA, questions |-> NoQuestions,
     isPublic |-> FALSE],
    [uniqueId |-> "", title |-> TitleB, questions |-> NoQuestions] }

\* bodies of PUT /api/quizzes/:id (every field optional)
UpdateInputs ==
  { [isPublic |-> FALSE] }

\* entries of a sync batch
SyncEntries ==
  { [uniqueId |-> "u1", title |-> TitleA, questions |-> NoQuestions,
     isPublic |-> TRUE, version |-> 1, createdAt |-> 1],
    [uniqueId |-> "u1", title |-> TitleB, questions |-> NoQuestions,
     isPublic |-> TRUE, version |-> 2, createdAt |-> 1],
    [uniqueId |-> "u1", title |-> TitleA, questions |-> NoQuestions,
     isPublic |-> FALSE, createdAt |-> 1],
    [uniqueId |-> "u2", title |-> TitleA, questions |-> NoQuestions,
     isPublic |-> TRUE, createdAt |-> 1],
    [uniqueId |-> "", title |-> TitleA, questions |-> NoQuestions,
     isPublic |-> TRUE, createdAt |-> 1] }

\* the uniqueIds clients send
ClientUniqueIds == {"u1", "u2"}

\* questions of the deduplication inputs: A and B share the question text,
\* B and C share the correct answer, A and C share neither
Question(question, options, correctAnswer) ==
  [question |-> question, options |-> options,
   correctAnswer |-> correctAnswer]

QuestionA == Question(<<"a">>, << <<"a">>, <<"b">> >>, <<"a">>)
QuestionB == Question(<<"A", " ">>, << <<"a">>, <<"b">> >>, <<"b">>)
QuestionC == Question(<<"b">>, << <<"a">>, <<"b">> >>, <<" ", "B">>)

\* bodies of POST /api/quizzes that make duplicates of one another
DedupCreateInputs ==
  { [uniqueId |-> "u1", title |-> TitleA, questions |-> <<QuestionA>>,
     isPublic |-> TRUE],
    [uniqueId |-> "u1", title |-> TitleA, questions |-> <<QuestionB>>,
     isPublic |-> TRUE, version |-> 2, createdAt |-> 2],
    [uniqueId |-> "", title |-> <<"A", " ">>, questions |-> <<QuestionB>>,
     isPublic |-> TRUE],
    [uniqueId |-> "", title |-> TitleA, questions |-> <<QuestionC>>,
     isPublic |-> TRUE, createdAt |-> 2] }

\* bodies of PUT /api/quizzes/:id: the uniqueId is emptied
DedupUpdateInputs ==
  { [uniqueId |-> ""] }

\* one-entry sync batches
DedupBatches ==
  { << [uniqueId |-> "u1", title |-> TitleA, questions |-> <<QuestionC>>,
        isPublic |-> TRUE, createdAt |-> 1] >> }

SeqsUpTo(S, n) == UNION {[1..k -> S] : k \in 0..n}

Batches == SeqsUpTo(SyncEntries, MaxBatch)

---------------------------------------------------------------------------
(* The state machine *)
(*                                                                         *)
(* quizCollection and quizCurrentId are the fields of MemStorage.  last    *)
(* observes the call that has just run: its name, its argument, the        *)
(* collection it started from and what it returned.  A call runs when the  *)
(* previous response has been sent (last.op = "idle"); MemStorage awaits   *)
(* nothing but its own resolved promises, so no other request runs inside  *)
(* a call.                                                                 *)

Store == [coll |-> quizCollection, nextId |-> quizCurrentId]

NoProbe == [kind |-> "none"]

Idle == [op |-> "idle", arg |-> <<>>, pre |-> <<>>, preId |-> 0, ret |-> 0]

Observe(op, arg, ret) ==
  [op |-> op, arg |-> arg, pre |-> quizCollection, preId |-> quizCurrentId,
   ret |-> ret]

Called(op) == last.op = op

\* at most maxQuizzes ids are assigned and no version passes MaxVersion
WithinBounds(st, maxQuizzes) ==
  /\ st.nextId <= maxQuizzes + 1
  /\ \A i \in 1..Len(st.coll) : st.coll[i].version <= MaxVersion

Init ==
  /\ quizCollection = <<>>
  /\ quizCurrentId = 1
  /\ last = Idle
  /\ probe = NoProbe

\* POST /api/quizzes
Create(quiz, now, maxQuizzes) ==
  LET st == createQuiz(Store, quiz, now)
  IN  /\ Called("idle")
      /\ WithinBounds(st, maxQuizzes)
      /\ quizCollection' = st.coll
      /\ quizCurrentId' = st.nextId
      /\ last' = Observe("createQuiz", <<quiz>>, quizCurrentId)
      /\ UNCHANGED probe

\* PUT /api/quizzes/:id
UpdateQuiz(id, quizUpdate) ==
  LET coll == updateQuiz(quizCollection, id, quizUpdate)
  IN  /\ Called("idle")
      /\ WithinBounds([coll |-> coll, nextId |-> quizCurrentId],
                      quizCurrentId)
      /\ quizCollection' = coll
      /\ last' = Observe("updateQuiz", <<id, quizUpdate>>,
                         IndexOfId(quizCollection, id) # 0)
      /\ UNCHANGED <<quizCurrentId, probe>>

\* DELETE /api/quizzes/:id
DeleteQuiz(id) ==
  /\ Called("idle")
  /\ quizCollection' = deleteQuiz(quizCollection, id)
  /\ last' = Observe("deleteQuiz", <<id>>, IndexOfId(quizCollection, id) # 0)
  /\ UNCHANGED <<quizCurrentId, probe>>

\* storage.syncQuizzes(batch)
Sync(quizzesToSync, now, maxQuizzes) ==
  LET st == syncQuizzes(Store, quizzesToSync, now)
  IN  /\ Called("idle")
      /\ WithinBounds(st, maxQuizzes)
      /\ quizCollection' = st.coll
      /\ quizCurrentId' = st.nextId
      /\ last' = Observe("syncQuizzes", quizzesToSync,
                         getPublicQuizzes(st.coll))
      /\ UNCHANGED probe

CreateQuiz(quiz, now) == Create(quiz, now, MaxQuizzes)

SyncQuizzes(quizzesToSync, now) == Sync(quizzesToSync, now, MaxQuizzes)

\* POST /api/quizzes/cleanup
RemoveDuplicateQuizzes ==
  LET res == removeDuplicateQuizzes(quizCollection)
  IN  /\ Called("idle")
      /\ quizCollection' = res.coll
      /\ last' = Observe("removeDuplicateQuizzes", <<>>, res.count)
      /\ UNCHANGED <<quizCurrentId, probe>>

\* the response is sent; the next request can run
Respond ==
  /\ ~Called("idle")
  /\ last' = Idle
  /\ UNCHANGED <<quizCollection, quizCurrentId, probe>>

Next ==
  \/ \E quiz \in CreateInputs, now \in Times : CreateQuiz(quiz, now)
  \/ \E id \in 1..MaxQuizzes, upd \in UpdateInputs : UpdateQuiz(id, upd)
  \/ \E id \in 1..MaxQuizzes : DeleteQuiz(id)
  \/ \E batch \in Batches, now \in Times : SyncQuizzes(batch, now)
  \/ RemoveDuplicateQuizzes
  \/ Respond

Spec == Init /\ [][Next]_vars

\* the same storage under requests that make duplicates
NextDedup ==
  \/ \E quiz \in DedupCreateInputs, now \in Times :
       Create(quiz, now, MaxDedupQuizzes)
  \/ \E id \in 1..MaxDedupQuizzes, upd \in DedupUpdateInputs :
       UpdateQuiz(id, upd)
  \/ \E batch \in DedupBatches, now \in Times :
       Sync(batch, now, MaxDedupQuizzes)
  \/ RemoveDuplicateQuizzes
  \/ Respond

SpecDedup == Init /\ [][NextDedup]_vars

---------------------------------------------------------------------------
(* Properties of syncQuizzes *)

\* the positions of the records (or batch entries) that carry uniqueId u
WithUniqueId(quizzes, u) ==
  {i \in 1..Len(quizzes) : UniqueIdOf(quizzes[i]) = u}

PreStore == [coll |-> last.pre, nextId |-> last.preId]

\* C1: privacy removal.  After syncQuizzes on a batch whose entries for u
\* are all non-public (and there is one), run on a collection that stored a
\* public record with uniqueId u, no stored record has uniqueId u.
C1_PrivacyRemoval ==
  Called("syncQuizzes") =>
    \A u \in ClientUniqueIds :
      ( /\ \E i \in WithUniqueId(last.pre, u) : IsPublicTrue(last.pre[i])
        /\ WithUniqueId(last.arg, u) # {}
        /\ \A k \in WithUniqueId(last.arg, u) : ~IsPublicTrue(last.arg[k]) )
      => WithUniqueId(quizCollection, u) = {}

\* C2: after every completed syncQuizzes call no stored record has
\* isPublic = false.
C2_NoPrivateAfterSync ==
  Called("syncQuizzes") =>
    \A i \in 1..Len(quizCollection) :
      ~(Has(quizCollection[i], "isPublic")
        /\ quizCollection[i].isPublic = FALSE)

\* a sync ran on a collection holding a private record that no entry of the
\* batch names: only the sweep can have removed it
C2_Witness ==
  /\ Called("syncQuizzes")
  /\ \E i \in 1..Len(last.pre) :
       /\ Has(last.pre[i], "isPublic") /\ last.pre[i].isPublic = FALSE
       /\ WithUniqueId(last.arg, UniqueIdOf(last.pre[i])) = {}
       /\ last.pre[i].id \notin Ids(quizCollection)

\* the batch has exactly one entry for u, it is public, and nothing with
\* uniqueId u was stored before the sync
SyncsNew(u) ==
  /\ Called("syncQuizzes")
  /\ WithUniqueId(last.pre, u) = {}
  /\ Cardinality(WithUniqueId(last.arg, u)) = 1
  /\ \A k \in WithUniqueId(last.arg, u) : IsPublicTrue(last.arg[k])

EntryFor(u) == last.arg[CHOOSE k \in WithUniqueId(last.arg, u) : TRUE]

Fetched(u) == quizCollection[getQuizByUniqueId(quizCollection, u)]

\* C3 as stated: sync then get.  After syncing a batch with one public
\* record for u into a collection without u, getQuizByUniqueId(u) returns a
\* record and its version is 1.
C3_SyncThenGetVersionOne ==
  \A u \in ClientUniqueIds :
    SyncsNew(u) =>
      /\ getQuizByUniqueId(quizCollection, u) # 0
      /\ Fetched(u).version = 1

\* C3 amended: getQuizByUniqueId(u) returns a record whose version is the
\* version the entry submitted when it submitted a non-zero one, and 1 when
\* it submitted none.
C3_SyncThenGetSubmittedVersion ==
  \A u \in ClientUniqueIds :
    SyncsNew(u) =>
      /\ getQuizByUniqueId(quizCollection, u) # 0
      /\ Fetched(u).version =
           IF VersionOf(EntryFor(u)) # 0 THEN EntryFor(u).version ELSE 1

\* a new record was synced from an entry that submitted version 2, another
\* from an entry that submitted none
C3_Witness ==
  /\ SyncsNew("u1")
  /\ VersionOf(EntryFor("u1")) = 2
  /\ Fetched("u1").version = 2

\* C4: re-sync bumps the version.  When exactly one record r with uniqueId
\* u is stored and the batch has exactly one entry for u, a public one,
\* then after the sync exactly one record with uniqueId u is stored; it has
\* r's id, the entry's title and r's version plus 1, whatever version the
\* entry carries.
C4_ResyncBumpsVersion ==
  Called("syncQuizzes") =>
    \A u \in ClientUniqueIds :
      ( /\ Cardinality(WithUniqueId(last.pre, u)) = 1
        /\ Cardinality(WithUniqueId(last.arg, u)) = 1
        /\ \A k \in WithUniqueId(last.arg, u) : IsPublicTrue(last.arg[k]) )
      => LET r == last.pre[getQuizByUniqueId(last.pre, u)]
         IN  /\ Cardinality(WithUniqueId(quizCollection, u)) = 1
             /\ Fetched(u).id = r.id
             /\ Fetched(u).title = EntryFor(u).title
             /\ Fetched(u).version = r.version + 1

\* the stored record had version 1 and another title; the entry carried a
\* version of its own that is not 2
C4_Witness ==
  /\ Called("syncQuizzes")
  /\ Cardinality(WithUniqueId(last.pre, "u1")) = 1
  /\ Cardinality(WithUniqueId(last.arg, "u1")) = 1
  /\ IsPublicTrue(EntryFor("u1"))
  /\ last.pre[getQuizByUniqueId(last.pre, "u1")].version = 1
  /\ last.pre[getQuizByUniqueId(last.pre, "u1")].title # EntryFor("u1").title
  /\ VersionOf(EntryFor("u1")) \notin {0, 2}
  /\ Fetched("u1").version = 2
  /\ Fetched("u1").title = EntryFor("u1").title

\* the batch without its public entries that have no uniqueId
WithoutAnonymousPublic(quizzesToSync) ==
  SelectSeq(quizzesToSync,
            LAMBDA q : ~(IsPublicTrue(q) /\ UniqueIdOf(q) = ""))

\* C5: mandatory identifier.  A public entry without uniqueId is neither
\* created nor updated: the collection and the id counter after the sync are
\* what the sync of the batch without those entries gives.
C5_AnonymousPublicEntryIgnored ==
  Called("syncQuizzes") =>
    \E now \in Times :
      LET st == syncQuizzes(PreStore, WithoutAnonymousPublic(last.arg), now)
      IN  /\ quizCollection = st.coll
          /\ quizCurrentId = st.nextId

\* a batch with a public entry without uniqueId and another entry that
\* changed the collection
C5_Witness ==
  /\ Called("syncQuizzes")
  /\ WithoutAnonymousPublic(last.arg) # last.arg
  /\ WithoutAnonymousPublic(last.arg) # <<>>
  /\ quizCollection # last.pre

\* ---- the tie-break on pairs of records ----

\* version and createdAt of the two records of a pair; 0 is a field the
\* record does not carry
TieFields == [version : 0..MaxTie, createdAt : 0..MaxTie]

\* a record with the fields of f that are not 0
TieRecord(base, f) ==
  Spread(Spread(base, IF f.version # 0 THEN [version |-> f.version]
                      ELSE EmptyMap),
         IF f.createdAt # 0 THEN [createdAt |-> f.createdAt] ELSE EmptyMap)

TieBody(uniqueId, question) ==
  [uniqueId |-> uniqueId, title |-> TitleA, questions |-> <<question>>]

\* the collection after the bodies first and second were created
TieCreated(first, second) ==
  createQuiz(createQuiz([coll |-> <<>>, nextId |-> 1], first, 1),
             second, 1).coll

\* the same after PUT emptied the uniqueId of both records
TieAnonymous(first, second) ==
  updateQuiz(updateQuiz(TieCreated(first, second), 1, [uniqueId |-> ""]),
             2, [uniqueId |-> ""])

\* what a run on a two-record collection tells of the pair (A, B)
TieOutcome(kind, coll, a, b) ==
  LET res == removeDuplicateQuizzes(coll)
  IN  [kind |-> kind, A |-> coll[a], B |-> coll[b],
       keptA |-> coll[a].id \in Ids(res.coll),
       keptB |-> coll[b].id \in Ids(res.coll)]

InitTie ==
  /\ quizCollection = <<>>
  /\ quizCurrentId = 1
  /\ last = Idle
  /\ probe \in [kind : {"pair"}, A : TieFields, B : TieFields]

\* the expression on two records, some fields missing
TieKeepNew ==
  /\ probe.kind = "pair"
  /\ LET A == TieRecord([id |-> 2], probe.A)
         B == TieRecord([id |-> 1], probe.B)
     IN  probe' = [kind |-> "keepNew", A |-> A, B |-> B,
                   keptA |-> keepNew(A, B), keptB |-> ~keepNew(A, B)]
  /\ UNCHANGED <<quizCollection, quizCurrentId, last>>

\* pass 1: A is the later record, B the one the map holds
TiePass1 ==
  /\ probe.kind = "pair"
  /\ probe' = TieOutcome("pass1",
                 TieCreated(TieRecord(TieBody("u1", QuestionA), probe.B),
                            TieRecord(TieBody("u1", QuestionB), probe.A)),
                 2, 1)
  /\ UNCHANGED <<quizCollection, quizCurrentId, last>>

\* pass 2: the same roles, on two records without uniqueId and equal content
TiePass2 ==
  /\ probe.kind = "pair"
  /\ probe' = TieOutcome("pass2",
                 TieAnonymous(TieRecord(TieBody("", QuestionA), probe.B),
                              TieRecord(TieBody("", QuestionA), probe.A)),
                 2, 1)
  /\ UNCHANGED <<quizCollection, quizCurrentId, last>>

\* pass 3: A is quiz1, the earlier record, B is quiz2
TiePass3 ==
  /\ probe.kind = "pair"
  /\ probe' = TieOutcome("pass3",
                 TieAnonymous(TieRecord(TieBody("", QuestionA), probe.A),
                              TieRecord(TieBody("", QuestionB), probe.B)),
                 1, 2)
  /\ UNCHANGED <<quizCollection, quizCurrentId, last>>

NextTie ==
  \/ TieKeepNew
  \/ TiePass1
  \/ TiePass2
  \/ TiePass3

SpecTie == InitTie /\ [][NextTie]_vars

\* the rule as a chain of cases
TieBreakRule(A, B) ==
  IF Has(A, "version") /\ Has(B, "version") /\ A.version > B.version
  THEN TRUE
  ELSE IF Has(A, "createdAt") /\ Has(B, "createdAt")
          /\ A.createdAt > B.createdAt
  THEN TRUE
  ELSE FALSE

TieDecided == probe.kind \in {"keepNew", "pass1", "pass2", "pass3"}

\* C8: tie-break rule.  In every pass, of two duplicate records A and B, A is
\* kept when both have a version and A's is greater; otherwise A is kept when
\* both have a createdAt and A's is later; otherwise B is kept.  Exactly one
\* of the two is kept.
C8_TieBreakRule ==
  TieDecided =>
    /\ probe.keptA = TieBreakRule(probe.A, probe.B)
    /\ probe.keptB = ~TieBreakRule(probe.A, probe.B)

\* a pass run on stored records kept A although A has the lower version,
\* because A was created later
C8_Witness ==
  /\ probe.kind \in {"pass1", "pass2", "pass3"}
  /\ probe.A.version < probe.B.version
  /\ probe.A.createdAt > probe.B.createdAt
  /\ probe.keptA
  /\ ~probe.keptB

\* ---- the content hash on quizzes and their rewritings ----

HashTitles == {<<"a">>, <<" ", "B">>}
HashPrompts == {<<"a">>, <<"B">>}
HashOptions == { << <<"b">>, <<"a">> >>, << <<"a">>, <<"A", "b">> >> }
HashAnswers == {<<"a">>, <<"b", " ">>}

HashQuestions ==
  [question : HashPrompts, options : HashOptions,
   correctAnswer : HashAnswers]

HashQuizzes ==
  [title : HashTitles, questions : SeqsUpTo(HashQuestions, MaxQuestions)]

\* the orders of n things that move at least one of them
Reorderings(n) ==
  { p \in [1..n -> 1..n] :
      /\ \A i, j \in 1..n : i # j => p[i] # p[j]
      /\ \E i \in 1..n : p[i] # i }

Reordered(seq, p) == [i \in 1..Len(seq) |-> seq[p[i]]]

\* the places of a quiz that hold text: k is the question, m the option
TextPlaces(quiz) ==
  {[field |-> "title", k |-> 0, m |-> 0]}
  \cup {[field |-> f, k |-> k, m |-> 0] :
          f \in {"question", "correctAnswer"},
          k \in 1..Len(quiz.questions)}
  \cup UNION {{[field |-> "options", k |-> k, m |-> m] :
                 m \in 1..Len(quiz.questions[k].options)} :
               k \in 1..Len(quiz.questions)}

TextAt(quiz, place) ==
  IF place.field = "title" THEN quiz.title
  ELSE IF place.field = "options"
  THEN quiz.questions[place.k].options[place.m]
  ELSE quiz.questions[place.k][place.field]

WithText(quiz, place, text) ==
  IF place.field = "title" THEN [quiz EXCEPT !.title = text]
  ELSE IF place.field = "options"
  THEN [quiz EXCEPT !.questions[place.k].options[place.m] = text]
  ELSE [quiz EXCEPT !.questions[place.k][place.field] = text]

SwapCase(c) ==
  CASE c = "a" -> "A" [] c = "A" -> "a" [] c = "b" -> "B" [] c = "B" -> "b"
    [] OTHER -> c

Hashed(kind, quiz, variant) ==
  [kind |-> kind, quiz |-> quiz, variant |-> variant,
   hash |-> createContentHash(quiz),
   variantHash |-> createContentHash(variant)]

InitHash ==
  /\ quizCollection = <<>>
  /\ quizCurrentId = 1
  /\ last = Idle
  /\ probe \in [kind : {"quiz"}, quiz : HashQuizzes]

\* the same questions in another order
ReorderQuestions ==
  /\ probe.kind = "quiz"
  /\ \E p \in Reorderings(Len(probe.quiz.questions)) :
       probe' = Hashed("reorderQuestions", probe.quiz,
                       [probe.quiz EXCEPT
                          !.questions = Reordered(probe.quiz.questions, p)])
  /\ UNCHANGED <<quizCollection, quizCurrentId, last>>

\* the options of one question in another order
ReorderOptions ==
  /\ probe.kind = "quiz"
  /\ \E k \in 1..Len(probe.quiz.questions) :
       \E p \in Reorderings(Len(probe.quiz.questions[k].options)) :
         probe' = Hashed("reorderOptions", probe.quiz,
                         [probe.quiz EXCEPT
                            !.questions[k].options =
                              Reordered(probe.quiz.questions[k].options, p)])
  /\ UNCHANGED <<quizCollection, quizCurrentId, last>>

\* one letter of one text in the other case
ChangeCase ==
  /\ probe.kind = "quiz"
  /\ \E place \in TextPlaces(probe.quiz) :
       LET text == TextAt(probe.quiz, place)
       IN  \E i \in 1..Len(text) :
             /\ SwapCase(text[i]) # text[i]
             /\ probe' = Hashed("changeCase", probe.quiz,
                            WithText(probe.quiz, place,
                                     [text EXCEPT ![i] = SwapCase(text[i])]))
  /\ UNCHANGED <<quizCollection, quizCurrentId, last>>

\* a blank before or after one text
PadWhitespace ==
  /\ probe.kind = "quiz"
  /\ \E place \in TextPlaces(probe.quiz) :
       LET text == TextAt(probe.quiz, place)
       IN  \E padded \in {<<" ">> \o text, text \o <<" ">>} :
             probe' = Hashed("padWhitespace", probe.quiz,
                             WithText(probe.quiz, place, padded))
  /\ UNCHANGED <<quizCollection, quizCurrentId, last>>

NextHash ==
  \/ ReorderQuestions
  \/ ReorderOptions
  \/ ChangeCase
  \/ PadWhitespace

SpecHash == InitHash /\ [][NextHash]_vars

\* C9: question order.  A quiz and the same quiz with its questions in
\* another order have the same content hash, also when questions share the
\* normalized prompt and differ in options or correct answer.
C9_QuestionOrderInvariant ==
  probe.kind = "reorderQuestions" => probe.hash = probe.variantHash

\* C10: option order and normalization.  A quiz and the same quiz with the
\* options of a question in another order, with a letter of the title, a
\* prompt, an option or an answer in the other case, or with a blank before
\* or after one of these texts, have the same content hash.
C10_OptionOrderAndNormalization ==
  probe.kind \in {"reorderOptions", "changeCase", "padWhitespace"}
    => probe.hash = probe.variantHash

\* the options of a question were put in another order, which without the
\* sort would join to another string
C10_Witness ==
  /\ probe.kind = "reorderOptions"
  /\ probe.variant # probe.quiz
  /\ \E k \in 1..Len(probe.quiz.questions) :
       QuestionDataUnsortedOptions(probe.quiz.questions[k])
         # QuestionDataUnsortedOptions(probe.variant.questions[k])

\* the stored records that a deduplication run removed
RemovedByRun ==
  { k \in 1..Len(last.pre) : last.pre[k].id \notin Ids(quizCollection) }

\* C6: deduplication is idempotent.  Right after a run of
\* removeDuplicateQuizzes, a second run on the resulting collection removes
\* nothing: it returns 0 and leaves the collection as it is.
C6_DedupIdempotent ==
  Called("removeDuplicateQuizzes") =>
    LET again == removeDuplicateQuizzes(quizCollection)
    IN  /\ again.count = 0
        /\ again.coll = quizCollection

\* a run whose fuzzy pass removed a record that is similar to two survivors
\* which are not similar to each other
C6_Witness ==
  /\ Called("removeDuplicateQuizzes")
  /\ last.ret > 0
  /\ \E r \in RemovedByRun :
       \E i, j \in 1..Len(quizCollection) :
         /\ i < j
         /\ UniqueIdOf(last.pre[r]) = ""
         /\ UniqueIdOf(quizCollection[i]) = ""
         /\ UniqueIdOf(quizCollection[j]) = ""
         /\ createContentHash(last.pre[r])
              # createContentHash(quizCollection[i])
         /\ createContentHash(last.pre[r])
              # createContentHash(quizCollection[j])
         /\ Normalized(quizCollection[i].title)
              = Normalized(quizCollection[j].title)
         /\ Normalized(quizCollection[i].title)
              = Normalized(last.pre[r].title)
         /\ SimilarEnough(quizCollection[i], last.pre[r])
         /\ SimilarEnough(last.pre[r], quizCollection[j])
         /\ ~SimilarEnough(quizCollection[i], quizCollection[j])

\* C7: uniqueId uniqueness.  Right after a run of removeDuplicateQuizzes no
\* two stored records carry the same non-empty uniqueId.
C7_UniqueIdsAfterDedup ==
  Called("removeDuplicateQuizzes") =>
    \A i, j \in 1..Len(quizCollection) :
      (i # j /\ UniqueIdOf(quizCollection[i]) # "")
        => UniqueIdOf(quizCollection[i]) # UniqueIdOf(quizCollection[j])

\* a run on a collection where a later record with the same uniqueId was the
\* newer one and replaced the earlier record
C7_Witness ==
  /\ Called("removeDuplicateQuizzes")
  /\ \E i, j \in 1..Len(last.pre) :
       /\ i < j
       /\ UniqueIdOf(last.pre[i]) # ""
       /\ UniqueIdOf(last.pre[i]) = UniqueIdOf(last.pre[j])
       /\ keepNew(last.pre[j], last.pre[i])
       /\ last.pre[i].id \notin Ids(quizCollection)
       /\ last.pre[j].id \in Ids(quizCollection)

\* ---- the fuzzy pass on stored five-question quizzes ----

FuzzyOptions == << <<"a">>, <<"b">> >>

\* a quiz body from the texts and the correct answers of its questions
FuzzyBody(uniqueId, prompts, answers) ==
  [uniqueId |-> uniqueId, title |-> TitleA, isPublic |-> TRUE,
   questions |-> [i \in 1..Len(prompts) |->
                    Question(prompts[i], FuzzyOptions, answers[i])]]

\* the first quiz, and question texts none of which is a text of the first
FuzzyPrompts ==
  << <<"a">>, <<"b">>, <<"a", "a">>, <<"a", "b">>, <<"b", "a">> >>
OtherPrompts ==
  << <<"b", "b">>, <<"a", "a", "a">>, <<"a", "a", "b">>, <<"a", "b", "a">>,
     <<"a", "b", "b">> >>

FuzzyAnswers ==
  << <<"a">>, <<"b">>, <<"a", "a">>, <<"a", "b">>, <<"b", "a">> >>
\* four of the five answers of FuzzyAnswers, in another case and padded
FourAnswers ==
  << <<"A">>, <<"b", " ">>, <<"a", "a">>, <<"a", "b">>, <<"b", "b">> >>
\* three of the five
ThreeAnswers ==
  << <<"a">>, <<"b">>, <<"a", "a">>, <<"b", "b">>, <<"b", "b", "b">> >>

FuzzyUniqueIds == {"", "u1", "u2"}

FuzzyCreateInputs ==
  { FuzzyBody(u, FuzzyPrompts, FuzzyAnswers) : u \in FuzzyUniqueIds }
  \cup { FuzzyBody(u, OtherPrompts, FourAnswers) : u \in FuzzyUniqueIds }
  \cup { FuzzyBody(u, OtherPrompts, ThreeAnswers) : u \in FuzzyUniqueIds }

FuzzyBatches ==
  { << FuzzyBody("u1", FuzzyPrompts, FuzzyAnswers),
       FuzzyBody("u2", OtherPrompts, answers) >> :
      answers \in {FourAnswers, ThreeAnswers} }

NextFuzzy ==
  \/ \E quiz \in FuzzyCreateInputs, now \in Times :
       Create(quiz, now, MaxQuizzes)
  \/ \E batch \in FuzzyBatches, now \in Times :
       Sync(batch, now, MaxQuizzes)
  \/ RemoveDuplicateQuizzes
  \/ Respond

SpecFuzzy == Init /\ [][NextFuzzy]_vars

\* the number of questions of quiz1 whose normalized correct answer is the
\* answer of a question of quiz2
SharedAnswers(quiz1, quiz2) ==
  Cardinality({i \in 1..Len(quiz1.questions) :
                 \E j \in 1..Len(quiz2.questions) :
                   Normalized(quiz1.questions[i].correctAnswer)
                     = Normalized(quiz2.questions[j].correctAnswer)})

\* the run was on two records with the identical title and as many questions
\* as FuzzyPrompts each, n of them matching, by the correct answer only
RanOnPair(n) ==
  /\ Called("removeDuplicateQuizzes")
  /\ Len(last.pre) = 2
  /\ last.pre[1].title = last.pre[2].title
  /\ Len(last.pre[1].questions) = Len(FuzzyPrompts)
  /\ Len(last.pre[2].questions) = Len(FuzzyPrompts)
  /\ matchCount(last.pre[1], last.pre[2]) = n
  /\ SharedAnswers(last.pre[1], last.pre[2]) = n

\* C11: fuzzy match end-to-end.  Two stored records, made by createQuiz or
\* syncQuizzes, with the identical title and 5 questions each are reduced to
\* one record by removeDuplicateQuizzes when 4 of the 5 questions match by
\* the normalized correct answer, and both stay stored when only 3 match.
C11_FuzzyEndToEnd ==
  /\ RanOnPair(4) => Len(quizCollection) = 1
  /\ RanOnPair(3) => quizCollection = last.pre

\* ---- the fuzzy pass on quizzes without questions ----

EmptyCreateInputs ==
  { [uniqueId |-> u, title |-> t, questions |-> NoQuestions,
     isPublic |-> TRUE] :
      u \in {"", "u1"}, t \in {TitleA, <<"A", " ">>, TitleB} }

NextEmpty ==
  \/ \E quiz \in EmptyCreateInputs, now \in Times :
       Create(quiz, now, MaxQuizzes)
  \/ \E id \in 1..MaxQuizzes, upd \in DedupUpdateInputs : UpdateQuiz(id, upd)
  \/ RemoveDuplicateQuizzes
  \/ Respond

SpecEmpty == Init /\ [][NextEmpty]_vars

\* records i and j of the collection the run started from are both retained
\* by passes 1 and 2, have the same normalized title and no questions
EmptyPair(i, j) ==
  /\ i < j
  /\ last.pre[i].id \in PlanAfterPass2(last.pre).keep
  /\ last.pre[j].id \in PlanAfterPass2(last.pre).keep
  /\ Normalized(last.pre[i].title) = Normalized(last.pre[j].title)
  /\ last.pre[i].questions = <<>>
  /\ last.pre[j].questions = <<>>

BothStored(i, j) ==
  /\ last.pre[i].id \in Ids(quizCollection)
  /\ last.pre[j].id \in Ids(quizCollection)

\* C12 as stated: two records retained by passes 1 and 2, with the same
\* normalized title and both without questions, are not duplicates for pass 3,
\* which removes neither.
C12_EmptyNotFuzzyDuplicates ==
  Called("removeDuplicateQuizzes") =>
    \A i, j \in 1..Len(last.pre) : EmptyPair(i, j) => BothStored(i, j)

\* C12, amended: two records retained by passes 1 and 2, with the same
\* normalized title and both without questions, are duplicates for pass 3
\* unless both carry uniqueIds that differ (0 matches reach the threshold 0):
\* the fuzzy pass leaves at most one of the two stored.
C12_EmptyAreFuzzyDuplicates ==
  Called("removeDuplicateQuizzes") =>
    \A i, j \in 1..Len(last.pre) :
      (EmptyPair(i, j) /\ Comparable(last.pre[i], last.pre[j]))
        => ~BothStored(i, j)

\* a run on a record with a uniqueId and one without, the same title up to
\* case and blanks, neither with questions: pass 3 removed one of them
C12_Witness ==
  /\ Called("removeDuplicateQuizzes")
  /\ last.ret = 1
  /\ \E i, j \in 1..Len(last.pre) :
       /\ EmptyPair(i, j)
       /\ UniqueIdOf(last.pre[i]) # UniqueIdOf(last.pre[j])
       /\ last.pre[i].title # last.pre[j].title
       /\ PlanAfterPass2(last.pre).removed = <<>>
       /\ ~BothStored(i, j)

\* ---- version, createdAt and id of a record through its life ----

FieldCreateInputs ==
  { [uniqueId |-> "u1", title |-> TitleA, questions |-> NoQuestions,
     isPublic |-> TRUE],
    [uniqueId |-> "", title |-> TitleB, questions |-> NoQuestions,
     isPublic |-> TRUE, createdAt |-> 2] }

\* bodies of PUT /api/quizzes/:id that carry a version or a createdAt
FieldUpdateInputs ==
  { [version |-> 1], [createdAt |-> 2] }

\* one-entry batches for u1: the entry carries a version and a createdAt
FieldBatches ==
  { << [uniqueId |-> "u1", title |-> TitleB, questions |-> NoQuestions,
        isPublic |-> TRUE, version |-> 1, createdAt |-> 2] >>,
    << [uniqueId |-> "u1", title |-> TitleA, questions |-> NoQuestions,
        isPublic |-> FALSE, createdAt |-> 1] >> }

NextFields ==
  \/ \E quiz \in FieldCreateInputs, now \in Times : CreateQuiz(quiz, now)
  \/ \E id \in 1..MaxQuizzes, upd \in FieldUpdateInputs : UpdateQuiz(id, upd)
  \/ \E id \in 1..MaxQuizzes : DeleteQuiz(id)
  \/ \E batch \in FieldBatches, now \in Times : SyncQuizzes(batch, now)
  \/ RemoveDuplicateQuizzes
  \/ Respond

SpecFields == Init /\ [][NextFields]_vars

\* the record stored under id
StoredAt(coll, id) == coll[IndexOfId(coll, id)]

\* the ids stored before and after the call that has just run
Surviving == Ids(last.pre) \cap Ids(quizCollection)

\* the number of updateQuiz calls a sync makes on the record stored under id:
\* one for every public entry whose uniqueId finds that record
SyncUpdatesOf(id) ==
  Cardinality({k \in 1..Len(last.arg) :
                 /\ IsPublicTrue(last.arg[k])
                 /\ UniqueIdOf(last.arg[k]) # ""
                 /\ getQuizByUniqueId(last.pre, last.arg[k].uniqueId)
                      = IndexOfId(last.pre, id)})

\* C13: version monotonicity per record.  Whatever call has just run, the
\* version stored under an id is not less than before the call; a successful
\* updateQuiz leaves the stored version plus 1, whatever version the payload
\* carries, and a sync adds 1 for each update it makes on the record.
C13_VersionMonotonic ==
  /\ \A id \in Surviving :
       StoredAt(quizCollection, id).version >= StoredAt(last.pre, id).version
  /\ Called("updateQuiz") =>
       \A id \in Surviving :
         StoredAt(quizCollection, id).version
           = StoredAt(last.pre, id).version
             + (IF id = last.arg[1] THEN 1 ELSE 0)
  /\ Called("syncQuizzes") =>
       \A id \in Surviving :
         StoredAt(quizCollection, id).version
           = StoredAt(last.pre, id).version + SyncUpdatesOf(id)

\* an update whose payload carries a version below the one it leaves, on a
\* stored record
C13_Witness ==
  /\ Called("updateQuiz")
  /\ last.ret
  /\ Has(last.arg[2], "version")
  /\ last.arg[2].version
       < StoredAt(quizCollection, last.arg[1]).version
  /\ StoredAt(quizCollection, last.arg[1]).version
       = StoredAt(last.pre, last.arg[1]).version + 1

\* C14: createdAt is set once.  No updateQuiz call and no sync update of a
\* record changes the createdAt stored for it.
C14_CreatedAtSetOnce ==
  (Called("updateQuiz") \/ Called("syncQuizzes")) =>
    \A id \in Surviving :
      StoredAt(quizCollection, id).createdAt
        = StoredAt(last.pre, id).createdAt

\* ---- request bodies that carry an id ----

\* the columns of quizzes without id: the keys insertQuizSchema keeps
InsertQuizKeys ==
  {"uniqueId", "title", "description", "questions", "timer", "category",
   "history", "createdAt", "lastTaken", "password", "isPublic", "createdBy",
   "version"}

\* insertQuizSchema.parse and .partial().parse: keys outside the schema are
\* stripped
insertQuizSchema(body) ==
  [f \in DOMAIN body \cap InsertQuizKeys |-> body[f]]

\* syncQuizSchema.parse on the quizzes array
syncQuizSchema(bodies) ==
  [k \in 1..Len(bodies) |-> insertQuizSchema(bodies[k])]

RawCreateBodies ==
  { [id |-> 1, uniqueId |-> "u1", title |-> TitleA,
     questions |-> NoQuestions, isPublic |-> TRUE],
    [uniqueId |-> "", title |-> TitleB, questions |-> NoQuestions,
     isPublic |-> FALSE] }

RawUpdateBodies ==
  { [id |-> 1, isPublic |-> FALSE], [id |-> 2, uniqueId |-> "u1"] }

RawBatches ==
  { << [id |-> 2, uniqueId |-> "u1", title |-> TitleB,
        questions |-> NoQuestions, isPublic |-> TRUE, createdAt |-> 1] >>,
    << [id |-> 1, uniqueId |-> "u2", title |-> TitleA,
        questions |-> NoQuestions, isPublic |-> TRUE, createdAt |-> 1],
       [uniqueId |-> "u1", title |-> TitleA, questions |-> NoQuestions,
        isPublic |-> FALSE, createdAt |-> 1] >> }

NextIdentity ==
  \/ \E body \in RawCreateBodies, now \in Times :
       CreateQuiz(insertQuizSchema(body), now)
  \/ \E id \in 1..MaxQuizzes, body \in RawUpdateBodies :
       UpdateQuiz(id, insertQuizSchema(body))
  \/ \E id \in 1..MaxQuizzes : DeleteQuiz(id)
  \/ \E bodies \in RawBatches, now \in Times :
       SyncQuizzes(syncQuizSchema(bodies), now)
  \/ RemoveDuplicateQuizzes
  \/ Respond

SpecIdentity == Init /\ [][NextIdentity]_vars

\* the ids stored after the call that were not stored before it
NewIds == Ids(quizCollection) \ Ids(last.pre)

\* C15: identity stability.  No two stored records have the same id; the id
\* field of a record is the key it was stored under (the counter value for
\* createQuiz, the id of the call for updateQuiz); every stored id is below
\* the counter, the counter never goes back and every new id is the counter
\* value or above, so an id once assigned, removed or not, is never assigned
\* again.
C15_IdentityStable ==
  /\ \A i, j \in 1..Len(quizCollection) :
       i # j => quizCollection[i].id # quizCollection[j].id
  /\ \A i \in 1..Len(quizCollection) :
       quizCollection[i].id < quizCurrentId
  /\ ~Called("idle") =>
       /\ quizCurrentId >= last.preId
       /\ \A id \in NewIds : id >= last.preId
  /\ Called("createQuiz") =>
       /\ quizCurrentId = last.preId + 1
       /\ Len(quizCollection) = Len(last.pre) + 1
       /\ SubSeq(quizCollection, 1, Len(last.pre)) = last.pre
       /\ quizCollection[Len(quizCollection)].id = last.preId
  /\ (Called("updateQuiz") /\ last.ret) =>
       /\ Len(quizCollection) = Len(last.pre)
       /\ quizCollection[IndexOfId(last.pre, last.arg[1])].id = last.arg[1]
  /\ (Called("deleteQuiz") \/ Called("removeDuplicateQuizzes")) =>
       \A i \in 1..Len(quizCollection) :
         \E k \in 1..Len(last.pre) : quizCollection[i] = last.pre[k]

\* createQuiz ran on a collection from which the holders of the ids assigned
\* before were all removed, and did not assign id 1 again
C15_Witness ==
  /\ Called("createQuiz")
  /\ last.pre = <<>>
  /\ last.preId > 1
  /\ Ids(quizCollection) = {last.preId}

\* the call that has just run was given an id that was not stored
MissedId ==
  /\ Called("updateQuiz") \/ Called("deleteQuiz")
  /\ last.arg[1] \notin Ids(last.pre)

\* C16: lookup misses are outcomes.  updateQuiz and deleteQuiz with an id
\* that is not stored report that nothing was found and leave the collection
\* and the id counter as they were.
C16_LookupMissChangesNothing ==
  MissedId =>
    /\ last.ret = FALSE
    /\ quizCollection = last.pre
    /\ quizCurrentId = last.preId

\* an update with an id that is not stored, on a collection that stores
\* another record
C16_Witness ==
  /\ Called("updateQuiz")
  /\ MissedId
  /\ last.pre # <<>>
  /\ quizCollection = last.pre

\* ---- POST /api/quizzes/sync ----

\* the map over req.body.quizzes: an entry without createdAt gets the time of
\* the request
ProcessedEntry(body, now) ==
  Spread(body, [createdAt |-> IF CreatedAtOf(body) # 0 THEN body.createdAt
                              ELSE now])

\* faulty variant of postSync: removeDuplicateQuizzes is not called
postSyncNoCleanup(st, bodies, now) ==
  LET syncData == syncQuizSchema([k \in 1..Len(bodies) |->
                                    ProcessedEntry(bodies[k], now)])
      synced == syncQuizzes(st, syncData, now)
  IN  [coll |-> synced.coll, nextId |-> synced.nextId,
       response |-> getPublicQuizzes(synced.coll)]

\* the handler on a store st = [coll, nextId]: syncQuizzes, then
\* removeDuplicateQuizzes, then getPublicQuizzes for the response
postSync(st, bodies, now) ==
  LET syncData == syncQuizSchema([k \in 1..Len(bodies) |->
                                    ProcessedEntry(bodies[k], now)])
      synced == syncQuizzes(st, syncData, now)
      cleaned == removeDuplicateQuizzes(synced.coll)
  IN  [coll |-> cleaned.coll, nextId |-> synced.nextId,
       response |-> getPublicQuizzes(cleaned.coll)]

PostSync(bodies, now) ==
  LET res == postSync(Store, bodies, now)
  IN  /\ Called("idle")
      /\ WithinBounds(res, MaxQuizzes)
      /\ quizCollection' = res.coll
      /\ quizCurrentId' = res.nextId
      /\ last' = Observe("postSync", bodies, res.response)
      /\ UNCHANGED probe

RouteCreateInputs ==
  { [uniqueId |-> "u1", title |-> TitleA, questions |-> NoQuestions,
     isPublic |-> TRUE],
    [uniqueId |-> "u1", title |-> TitleB, questions |-> NoQuestions,
     isPublic |-> TRUE, createdAt |-> 2],
    [uniqueId |-> "", title |-> TitleB, questions |-> NoQuestions,
     isPublic |-> TRUE],
    [uniqueId |-> "u2", title |-> TitleA, questions |-> NoQuestions,
     isPublic |-> FALSE] }

RouteBatches ==
  { <<>>,
    << [uniqueId |-> "u1", title |-> TitleA, questions |-> NoQuestions,
        isPublic |-> TRUE] >>,
    << [id |-> 1, uniqueId |-> "u2", title |-> TitleB,
        questions |-> NoQuestions, isPublic |-> TRUE, createdAt |-> 2],
       [uniqueId |-> "u1", title |-> TitleA, questions |-> NoQuestions,
        isPublic |-> FALSE] >> }

NextSyncRoute ==
  \/ \E quiz \in RouteCreateInputs, now \in Times : CreateQuiz(quiz, now)
  \/ \E id \in 1..MaxQuizzes, upd \in DedupUpdateInputs : UpdateQuiz(id, upd)
  \/ \E bodies \in RouteBatches, now \in Times : PostSync(bodies, now)
  \/ Respond

SpecSyncRoute == Init /\ [][NextSyncRoute]_vars

\* what syncQuizzes alone leaves of the collection the handler started from
SyncedOnly ==
  CHOOSE coll \in
    { syncQuizzes(PreStore,
                  syncQuizSchema([k \in 1..Len(last.arg) |->
                                    ProcessedEntry(last.arg[k], now)]),
                  now).coll : now \in Times } : TRUE

Callers == 1..MaxCallers

ConcurrentUpdateInputs ==
  { [title |-> TitleB], [version |-> 1] }

\* the rows the calls start from: row 1 at version v
StoredRows(v) ==
  << [id |-> 1, uniqueId |-> "u1", title |-> TitleA,
      questions |-> NoQuestions, isPublic |-> TRUE, version |-> v,
      createdAt |-> 1],
     [id |-> 2, uniqueId |-> "u2", title |-> TitleA,
      questions |-> NoQuestions, isPublic |-> TRUE, version |-> 1,
      createdAt |-> 1] >>

InitConcurrent ==
  /\ quizCollection \in {StoredRows(v) : v \in 1..MaxVersion}
  /\ quizCurrentId = Len(quizCollection) + 1
  /\ last = Idle
  /\ \E storage \in {"DbStorage", "MemStorage"} :
       \E args \in [Callers -> [id : 1..quizCurrentId,
                                quizUpdate : ConcurrentUpdateInputs]] :
         probe = [kind |-> "updateQuiz", storage |-> storage,
                  initial |-> quizCollection,
                  calls |-> [c \in Callers |->
                               [pc |-> "start", id |-> args[c].id,
                                quizUpdate |-> args[c].quizUpdate,
                                newVersion |-> 0, found |-> FALSE]]]

CallAt(c, pc) == probe.kind = "updateQuiz" /\ probe.calls[c].pc = pc

\* DbStorage.updateQuiz up to its second await: getQuiz, the early return
\* and newVersion
DbUpdateRead(c) ==
  LET call == probe.calls[c]
      k == IndexOfId(quizCollection, call.id)
  IN  /\ probe.storage = "DbStorage"
      /\ CallAt(c, "start")
      /\ probe' = [probe EXCEPT !.calls[c] =
                     IF k = 0 THEN [call EXCEPT !.pc = "done"]
                     ELSE [call EXCEPT
                             !.pc = "write", !.found = TRUE,
                             !.newVersion =
                               IF VersionOf(quizCollection[k]) # 0
                               THEN quizCollection[k].version + 1 ELSE 1]]
      /\ UNCHANGED <<quizCollection, quizCurrentId, last>>

\* the UPDATE ... SET { ...quizUpdate, version: newVersion } WHERE id
DbUpdateWrite(c) ==
  LET call == probe.calls[c]
      k == IndexOfId(quizCollection, call.id)
  IN  /\ probe.storage = "DbStorage"
      /\ CallAt(c, "write")
      /\ quizCollection' =
           IF k = 0 THEN quizCollection
           ELSE [quizCollection EXCEPT ![k] =
                   Spread(@, Spread(call.quizUpdate,
                                    [version |-> call.newVersion]))]
      /\ probe' = [probe EXCEPT !.calls[c].pc = "done"]
      /\ UNCHANGED <<quizCurrentId, last>>

\* MemStorage.updateQuiz, which runs to its end without an await
MemUpdate(c) ==
  LET call == probe.calls[c]
  IN  /\ probe.storage = "MemStorage"
      /\ CallAt(c, "start")
      /\ quizCollection' = updateQuiz(quizCollection, call.id, call.quizUpdate)
      /\ probe' = [probe EXCEPT
                     !.calls[c].pc = "done",
                     !.calls[c].found =
                       IndexOfId(quizCollection, call.id) # 0]
      /\ UNCHANGED <<quizCurrentId, last>>

NextConcurrent ==
  \E c \in Callers : DbUpdateRead(c) \/ DbUpdateWrite(c) \/ MemUpdate(c)

SpecConcurrent == InitConcurrent /\ [][NextConcurrent]_vars

\* the callers whose update of the row id found the row
CompletedOn(id) ==
  {c \in Callers : probe.calls[c].id = id /\ probe.calls[c].found}

AllDone == probe.kind = "updateQuiz" /\ \A c \in Callers : CallAt(c, "done")

\* C18: update atomicity under concurrency.  When the concurrent updateQuiz
\* calls have all completed, the version of a row is its initial version
\* plus the number of completed updates of that row: two updates of the same
\* id leave the initial version plus 2, with DbStorage and with MemStorage.
C18_EachUpdateCounts ==
  AllDone =>
    \A k \in 1..Len(quizCollection) :
      quizCollection[k].version
        = probe.initial[k].version
          + Cardinality(CompletedOn(quizCollection[k].id))

\* every record of the collection has a uniqueId and no two have the same
DistinctUniqueIds(coll) ==
  \A i, j \in 1..Len(coll) :
    /\ UniqueIdOf(coll[i]) # ""
    /\ i # j => UniqueIdOf(coll[i]) # UniqueIdOf(coll[j])

\* C19: distinct identifiers are never merged.  A run of
\* removeDuplicateQuizzes on a collection whose records all have a uniqueId,
\* no two the same, deletes nothing and returns 0, however alike the titles
\* and the questions are.
C19_DistinctUniqueIdsKept ==
  (Called("removeDuplicateQuizzes") /\ DistinctUniqueIds(last.pre)) =>
    /\ last.ret = 0
    /\ quizCollection = last.pre

\* a run on records with different uniqueIds, two of them with the same
\* content hash and two with the same title and similar questions only
C19_Witness ==
  /\ Called("removeDuplicateQuizzes")
  /\ DistinctUniqueIds(last.pre)
  /\ \E i, j \in 1..Len(last.pre) :
       /\ i # j
       /\ createContentHash(last.pre[i]) = createContentHash(last.pre[j])
  /\ \E i, j \in 1..Len(last.pre) :
       /\ i # j
       /\ createContentHash(last.pre[i]) # createContentHash(last.pre[j])
       /\ Normalized(last.pre[i].title) = Normalized(last.pre[j].title)
       /\ SimilarEnough(last.pre[i], last.pre[j])
  /\ quizCollection = last.pre

\* the ids of the records a plan marks for removal
MarkedIds(removed) == {removed[k].id : k \in 1..Len(removed)}

IsPrefix(s, t) == Len(s) <= Len(t) /\ SubSeq(t, 1, Len(s)) = s

\* C20: the removal plan is a partition and the count is exact.  After the
\* three passes every record of the snapshot is either retained or marked
\* for removal, never both, and no record is marked twice; what a pass has
\* marked stays marked and is not among the records the next pass works on;
\* the returned number is the size of the collection before the call minus
\* its size after it.
C20_PlanIsPartition ==
  Called("removeDuplicateQuizzes") =>
    LET p1 == PlanAfterPass1(last.pre)
        p2 == PlanAfterPass2(last.pre)
        p3 == DuplicatePlan(last.pre)
    IN  /\ p3.final \cup MarkedIds(p3.removed) = Ids(last.pre)
        /\ p3.final \cap MarkedIds(p3.removed) = {}
        /\ Cardinality(MarkedIds(p3.removed)) = Len(p3.removed)
        /\ IsPrefix(p1.removed, p2.removed)
        /\ IsPrefix(p2.removed, p3.removed)
        /\ p1.keep \cap MarkedIds(p1.removed) = {}
        /\ p2.keep \cap MarkedIds(p2.removed) = {}
        /\ p2.keep \subseteq p1.keep
        /\ p3.final \subseteq p2.keep
        /\ Ids(quizCollection) = p3.final
        /\ last.ret = Len(p3.removed)
        /\ last.ret = Len(last.pre) - Len(quizCollection)

\* a run in which pass 1 replaced a record by a newer one and a later pass
\* removed another record
C20_Witness ==
  /\ Called("removeDuplicateQuizzes")
  /\ \E k \in 1..Len(PlanAfterPass1(last.pre).removed) :
       \E j \in 1..Len(last.pre) :
         /\ PlanAfterPass1(last.pre).removed[k] = last.pre[j]
         /\ \E i \in (j + 1)..Len(last.pre) :
              /\ UniqueIdOf(last.pre[i]) = UniqueIdOf(last.pre[j])
              /\ last.pre[i].id \in PlanAfterPass1(last.pre).keep
  /\ Len(DuplicatePlan(last.pre).removed)
       > Len(PlanAfterPass1(last.pre).removed)
  /\ last.ret = Len(last.pre) - Len(quizCollection)
  /\ last.ret > 1

---------------------------------------------------------------------------
(* syncQuizzes and the records its batch does not name *)

FrameCreateInputs ==
  { [uniqueId |-> "u1", title |-> TitleA, questions |-> NoQuestions,
     isPublic |-> TRUE],
    [uniqueId |-> "u2", title |-> TitleB, questions |-> NoQuestions,
     isPublic |-> TRUE] }

FrameBatches ==
  { << [uniqueId |-> "u2", title |-> TitleA, questions |-> NoQuestions,
        isPublic |-> TRUE, createdAt |-> 1] >>,
    << [uniqueId |-> "u2", title |-> TitleA, questions |-> NoQuestions,
        isPublic |-> FALSE, createdAt |-> 1] >>,
    << [uniqueId |-> "u1", title |-> TitleB, questions |-> NoQuestions,
        isPublic |-> TRUE, createdAt |-> 1],
       [uniqueId |-> "u2", title |-> TitleA, questions |-> NoQuestions,
        isPublic |-> FALSE, createdAt |-> 1] >> }

NextFrame ==
  \/ \E quiz \in FrameCreateInputs, now \in Times :
       Create(quiz, now, MaxDedupQuizzes)
  \/ \E batch \in FrameBatches, now \in Times :
       Sync(batch, now, MaxDedupQuizzes)
  \/ Respond

SpecFrame == Init /\ [][NextFrame]_vars

\* the positions of the stored public records the batch does not name
Unnamed ==
  {i \in 1..Len(last.pre) :
     /\ IsPublicTrue(last.pre[i])
     /\ WithUniqueId(last.arg, UniqueIdOf(last.pre[i])) = {}}

\* C21: sync frame and no implicit deduplication.  syncQuizzes leaves every
\* stored public record whose uniqueId does not occur in the batch as it
\* was (same id, same fields, same version), and a public record that is
\* gone after the call was named by a non-public entry of the batch; so two
\* public records sharing a uniqueId absent from the batch both stay stored.
C21_SyncFrame ==
  Called("syncQuizzes") =>
    /\ \A i \in Unnamed :
         /\ last.pre[i].id \in Ids(quizCollection)
         /\ StoredAt(quizCollection, last.pre[i].id) = last.pre[i]
    /\ \A i \in 1..Len(last.pre) :
         (IsPublicTrue(last.pre[i]) /\ last.pre[i].id \notin Ids(quizCollection))
           => \E k \in WithUniqueId(last.arg, UniqueIdOf(last.pre[i])) :
                ~IsPublicTrue(last.arg[k])

\* a sync that changed the collection while two public records sharing a
\* uniqueId the batch does not name were stored
C21_Witness ==
  /\ Called("syncQuizzes")
  /\ quizCollection # last.pre
  /\ \E i \in Unnamed, j \in Unnamed :
       /\ i < j
       /\ UniqueIdOf(last.pre[i]) = UniqueIdOf(last.pre[j])
       /\ {last.pre[i].id, last.pre[j].id} \subseteq Ids(quizCollection)

---------------------------------------------------------------------------
(* DbStorage.removeDuplicateQuizzes beside another caller *)
(*                                                                         *)
(* quizCollection holds the rows of the quizzes table, whose unique_id     *)
(* column is unique.  The call reads the table once (getAllQuizzes), plans *)
(* on what it read and then awaits one deleteQuiz per planned record, so   *)
(* the statements of other callers run between its statements.  probe     *)
(* holds what the call has read and planned and where it stands; in mode   *)
(* "critical" the whole call excludes the other callers.                   *)

\* rows of the table: row 1 has had its uniqueId emptied by an update
DedupRowSet(v) ==
  { [id |-> 1, uniqueId |-> "", title |-> TitleA,
     questions |-> <<QuestionA>>, isPublic |-> TRUE, version |-> 2,
     createdAt |-> 1],
    [id |-> 2, uniqueId |-> "u1", title |-> TitleA,
     questions |-> <<QuestionB>>, isPublic |-> TRUE, version |-> v,
     createdAt |-> 1],
    [id |-> 3, uniqueId |-> "u2", title |-> <<"A", " ">>,
     questions |-> <<QuestionB>>, isPublic |-> TRUE, version |-> 1,
     createdAt |-> 1] }

\* the table in every order a SELECT without ORDER BY can return it
DedupTables ==
  UNION { {s \in SeqsUpTo(DedupRowSet(v), 3) :
             \A i, j \in 1..Len(s) : i # j => s[i].id # s[j].id} :
          v \in 1..MaxVersion }

InitStalePlan ==
  /\ quizCollection \in DedupTables
  /\ quizCurrentId = 4
  /\ last = Idle
  /\ \E mode \in {"critical", "interleaved"} :
       probe = [kind |-> "dedup", mode |-> mode, pc |-> "start",
                allQuizzes |-> <<>>, duplicatesToRemove |-> <<>>, i |-> 1,
                deleteCount |-> 0, deleted |-> {}, after |-> <<>>,
                others |-> {}]

DedupAt(pc) == probe.kind = "dedup" /\ probe.pc = pc

\* getAllQuizzes and the three passes on its result
DbDedupRead ==
  LET plan == DuplicatePlan(quizCollection).removed
  IN  /\ DedupAt("start")
      /\ probe' = [probe EXCEPT
                     !.allQuizzes = quizCollection,
                     !.duplicatesToRemove = plan,
                     !.pc = IF plan = <<>> THEN "done" ELSE "delete",
                     !.after = quizCollection]
      /\ UNCHANGED <<quizCollection, quizCurrentId, last>>

\* faulty variant of DbDeleteStep: the row is left in the table
DbDeleteStepKeepsRow(rows, quiz) == [rows |-> rows, deleted |-> FALSE]

\* await this.deleteQuiz(quiz.id): the row is deleted if it is still there
DbDeleteStep(rows, quiz) ==
  [rows |-> MapDelete(rows, quiz.id),
   deleted |-> IndexOfId(rows, quiz.id) # 0]

\* one turn of the loop over duplicatesToRemove
DbDedupDelete ==
  LET quiz == probe.duplicatesToRemove[probe.i]
      step == DbDeleteStep(quizCollection, quiz)
  IN  /\ DedupAt("delete")
      /\ quizCollection' = step.rows
      /\ probe' = [probe EXCEPT
                     !.i = @ + 1,
                     !.deleteCount = IF step.deleted THEN @ + 1 ELSE @,
                     !.deleted = IF step.deleted THEN @ \cup {quiz} ELSE @,
                     !.pc = IF probe.i = Len(probe.duplicatesToRemove)
                            THEN "done" ELSE "delete",
                     !.after = step.rows]
      /\ UNCHANGED <<quizCurrentId, last>>

\* DbStorage.deleteQuiz(id) of another caller
OtherDeleteQuiz(c, id) ==
  /\ probe.kind = "dedup"
  /\ c \notin probe.others
  /\ probe.mode = "critical" => ~DedupAt("delete")
  /\ quizCollection' = MapDelete(quizCollection, id)
  /\ probe' = [probe EXCEPT !.others = @ \cup {c}]
  /\ UNCHANGED <<quizCurrentId, last>>

NextStalePlan ==
  \/ DbDedupRead
  \/ DbDedupDelete
  \/ \E c \in Callers \ {1}, id \in 1..3 : OtherDeleteQuiz(c, id)

SpecStalePlan == InitStalePlan /\ [][NextStalePlan]_vars

\* two records one of the passes takes for duplicates of one another
DuplicatePair(a, b) ==
  /\ a.id # b.id
  /\ \/ UniqueIdOf(a) # "" /\ UniqueIdOf(a) = UniqueIdOf(b)
     \/ /\ UniqueIdOf(a) = "" /\ UniqueIdOf(b) = ""
        /\ createContentHash(a) = createContentHash(b)
     \/ /\ Normalized(a.title) = Normalized(b.title)
        /\ Comparable(a, b)
        /\ SimilarEnough(a, b) \/ SimilarEnough(b, a)

\* the duplicate group of the records S among the records read
RECURSIVE DuplicateGroup(_, _)
DuplicateGroup(S, allQuizzes) ==
  LET more == S \cup {allQuizzes[k] : k \in
                        {k \in 1..Len(allQuizzes) :
                           \E a \in S : DuplicatePair(a, allQuizzes[k])}}
  IN  IF more = S THEN S ELSE DuplicateGroup(more, allQuizzes)

\* the call deleted a record and returned with no record of its group stored
GroupLost ==
  \E quiz \in probe.deleted :
    \A other \in DuplicateGroup({quiz}, probe.allQuizzes) :
      other.id \notin Ids(probe.after)

\* C22: stale removal plan under interleaving.  removeDuplicateQuizzes
\* deletes every record it planned to remove, whatever the other callers
\* did in between, and counts the deletions that found their row; run as
\* one critical section it never returns with a whole duplicate group lost.
\* (C22_Witness is the interleaved run that does lose one.)
C22_StalePlan ==
  DedupAt("done") =>
    /\ \A k \in 1..Len(probe.duplicatesToRemove) :
         probe.duplicatesToRemove[k].id \notin Ids(probe.after)
    /\ probe.deleteCount = Cardinality(probe.deleted)
    /\ probe.mode = "critical" => ~GroupLost

\* the winner was deleted by another caller between the read and the
\* deletions, and the planned loser was deleted all the same
C22_Witness ==
  /\ DedupAt("done")
  /\ probe.mode = "interleaved"
  /\ probe.deleteCount > 0
  /\ GroupLost

---------------------------------------------------------------------------
(* MemStorage.syncQuizzes called by several callers at once *)
(*                                                                         *)
(* syncQuizzes awaits getQuizByUniqueId and then createQuiz or updateQuiz  *)
(* for every public entry, so another call on the same storage runs        *)
(* between the lookup and what is done with its result.  probe holds, for  *)
(* every caller, its batch, where its call stands and the result of its    *)
(* last lookup; in mode "serialized" a call starts when no other call is   *)
(* in progress.                                                            *)

SyncEntryFor(uniqueId) ==
  [uniqueId |-> uniqueId, title |-> TitleA, questions |-> NoQuestions,
   isPublic |-> TRUE, createdAt |-> 1]

\* batches of public entries that all contain one for u1
ConcurrentBatches ==
  { <<SyncEntryFor("u1")>>,
    <<SyncEntryFor("u2"), SyncEntryFor("u1")>> }

\* the first entry from position i on that the first loop does not skip
RECURSIVE NextEntry(_, _)
NextEntry(publicQuizzesToSync, i) ==
  IF i > Len(publicQuizzesToSync) THEN i
  ELSE IF SkipsEntry(publicQuizzesToSync[i])
  THEN NextEntry(publicQuizzesToSync, i + 1)
  ELSE i

\* existingQuiz.id for the entry at position i, 0 for undefined
LookedUp(coll, publicQuizzesToSync, i) ==
  IF i > Len(publicQuizzesToSync) THEN 0
  ELSE LET k == getQuizByUniqueId(coll, UniqueIdOf(publicQuizzesToSync[i]))
       IN  IF k = 0 THEN 0 ELSE coll[k].id

InitConcurrentSync ==
  /\ quizCollection = <<>>
  /\ quizCurrentId = 1
  /\ last = Idle
  /\ \E mode \in {"serialized", "interleaved"} :
       \E batches \in [Callers -> ConcurrentBatches] :
         probe = [kind |-> "sync", mode |-> mode,
                  calls |-> [c \in Callers |->
                               [pc |-> "start", quizzesToSync |-> batches[c],
                                publicQuizzesToSync |-> <<>>, i |-> 1,
                                existingQuiz |-> 0, created |-> {},
                                ret |-> <<>>]]]

SyncAt(c, pc) == probe.kind = "sync" /\ probe.calls[c].pc = pc

\* the call up to its first await: the filter and the first lookup
SyncStart(c) ==
  LET call == probe.calls[c]
      public == SelectSeq(call.quizzesToSync, IsPublicTrue)
      i == NextEntry(public, 1)
  IN  /\ SyncAt(c, "start")
      /\ probe.mode = "serialized" =>
           \A d \in Callers : SyncAt(d, "start") \/ SyncAt(d, "done")
      /\ probe' = [probe EXCEPT !.calls[c] =
                     [call EXCEPT
                        !.publicQuizzesToSync = public,
                        !.i = i,
                        !.existingQuiz = LookedUp(quizCollection, public, i),
                        !.pc = "apply"]]
      /\ UNCHANGED <<quizCollection, quizCurrentId, last>>

\* faulty variant of ApplyPublicEntry: the record is looked up again
ApplyPublicEntryLooksAgain(st, quizToSync, existingQuiz, now) ==
  LET k == getQuizByUniqueId(st.coll, UniqueIdOf(quizToSync))
  IN  IF k # 0
      THEN [st EXCEPT !.coll = updateQuiz(st.coll, st.coll[k].id, quizToSync)]
      ELSE createQuiz(st, quizToSync, now)

\* if (existingQuiz) updateQuiz(existingQuiz.id, ...) else createQuiz(...)
ApplyPublicEntry(st, quizToSync, existingQuiz, now) ==
  IF existingQuiz # 0
  THEN [st EXCEPT !.coll = updateQuiz(st.coll, existingQuiz, quizToSync)]
  ELSE createQuiz(st, quizToSync, now)

\* from one await of the first loop to the next: the entry is applied with
\* the result of its lookup, then the next entry is looked up or, after the
\* last one, the second loop and the sweep run
SyncApply(c, now) ==
  LET call == probe.calls[c]
      public == call.publicQuizzesToSync
      over == call.i > Len(public)
      st == IF over THEN Store
            ELSE ApplyPublicEntry(Store, public[call.i], call.existingQuiz,
                                  now)
      next == IF over THEN call.i ELSE NextEntry(public, call.i + 1)
      swept == deletePrivateQuizzes(SyncPrivateLoop(st.coll,
                                                    call.quizzesToSync, 1))
  IN  /\ SyncAt(c, "apply")
      /\ quizCollection' = IF next > Len(public) THEN swept ELSE st.coll
      /\ quizCurrentId' = st.nextId
      /\ probe' = [probe EXCEPT !.calls[c] =
                     [call EXCEPT
                        !.i = next,
                        !.existingQuiz = LookedUp(st.coll, public, next),
                        !.created =
                          IF ~over /\ call.existingQuiz = 0
                          THEN @ \cup {UniqueIdOf(public[call.i])} ELSE @,
                        !.pc = IF next > Len(public) THEN "return"
                               ELSE "apply"]]
      /\ UNCHANGED last

\* return await this.getPublicQuizzes()
SyncReturn(c) ==
  /\ SyncAt(c, "return")
  /\ probe' = [probe EXCEPT !.calls[c].ret = getPublicQuizzes(quizCollection),
                            !.calls[c].pc = "done"]
  /\ UNCHANGED <<quizCollection, quizCurrentId, last>>

NextConcurrentSync ==
  \E c \in Callers :
    \/ SyncStart(c)
    \/ \E now \in Times : SyncApply(c, now)
    \/ SyncReturn(c)

SpecConcurrentSync == InitConcurrentSync /\ [][NextConcurrentSync]_vars

AllSynced == probe.kind = "sync" /\ \A c \in Callers : SyncAt(c, "done")

\* the callers whose lookup of u found nothing
TookCreateBranch(u) == {c \in Callers : u \in probe.calls[c].created}

---------------------------------------------------------------------------
(* Which record of a pair the passes keep *)

\* C24: newest-by-version survives.  Of two stored records sharing a
\* uniqueId, the one removeDuplicateQuizzes retains has a version greater
\* than or equal to the version of the one it removes, whichever of the two
\* is stored first.
C24_NewestByVersionSurvives ==
  probe.kind = "pass1" =>
    /\ (probe.keptA /\ ~probe.keptB) => probe.A.version >= probe.B.version
    /\ (probe.keptB /\ ~probe.keptA) => probe.B.version >= probe.A.version

\* neither record of the pair wins the comparison against the other
ExactTie(A, B) == ~keepNew(A, B) /\ ~keepNew(B, A)

\* C25: consistent handling of exact ties across passes.  When the two
\* records of a duplicate pair tie (neither version is greater, neither
\* createdAt is later), pass 1, pass 2 and pass 3 all retain the record that
\* was stored earlier and remove the other.
C25_TiesKeepEarlierStored ==
  (probe.kind \in {"pass1", "pass2", "pass3"} /\ ExactTie(probe.A, probe.B))
    => IF probe.A.id < probe.B.id
       THEN probe.keptA /\ ~probe.keptB
       ELSE probe.keptB /\ ~probe.keptA

---------------------------------------------------------------------------
(* The records that survive the fuzzy pass *)

\* OneSided has one question that matches both questions of TwoSided and one
\* that matches neither: 1 of its 2 questions match, 2 of the 2 of TwoSided
QuestionD == Question(<<"b">>, << <<"a">>, <<"b">> >>, <<"A">>)
QuestionE == Question(<<"a", "b">>, << <<"a">>, <<"b">> >>, <<"a", "b">>)

OneSided ==
  [uniqueId |-> "", title |-> TitleA, questions |-> <<QuestionA, QuestionE>>,
   isPublic |-> TRUE]
TwoSided ==
  [uniqueId |-> "", title |-> <<"A", " ">>,
   questions |-> <<QuestionB, QuestionD>>, isPublic |-> TRUE]

SurvivorCreateInputs == {OneSided, TwoSided}

NextSurvivors ==
  \/ \E quiz \in SurvivorCreateInputs, now \in Times :
       Create(quiz, now, MaxDedupQuizzes)
  \/ \E id \in 1..MaxDedupQuizzes, upd \in DedupUpdateInputs :
       UpdateQuiz(id, upd)
  \/ RemoveDuplicateQuizzes
  \/ Respond

SpecSurvivors == Init /\ [][NextSurvivors]_vars

\* two records pass 3 compares: same normalized title, not two different
\* uniqueIds, question counts that differ by at most one
FuzzyCandidates(quiz1, quiz2) ==
  /\ Normalized(quiz1.title) = Normalized(quiz2.title)
  /\ Comparable(quiz1, quiz2)

\* the fuzzy criterion counted from a: the questions of a with the normalized
\* prompt or the normalized correct answer of some question of b are at
\* least 0.8 times the smaller question count
MeetsCriterion(a, b) ==
  10 * Cardinality({i \in 1..Len(a.questions) :
                      \E j \in 1..Len(b.questions) :
                        \/ Normalized(a.questions[i].question)
                             = Normalized(b.questions[j].question)
                        \/ Normalized(a.questions[i].correctAnswer)
                             = Normalized(b.questions[j].correctAnswer)})
    >= 8 * Min(Len(a.questions), Len(b.questions))

\* C26 as stated: after removeDuplicateQuizzes no two retained records that
\* pass 3 compares meet the fuzzy criterion, counted from either record: the
\* questions of the one that match a question of the other are fewer than
\* 0.8 times the smaller question count, whichever is stored first.
C26_NoSurvivingPairEitherWay ==
  Called("removeDuplicateQuizzes") =>
    \A i, j \in 1..Len(quizCollection) :
      (i # j /\ FuzzyCandidates(quizCollection[i], quizCollection[j]))
        => ~MeetsCriterion(quizCollection[i], quizCollection[j])

\* C26: after removeDuplicateQuizzes, for any two retained records that
\* pass 3 compares, the questions of the record stored first that match a
\* question of the record stored later are fewer than 0.8 times the smaller
\* question count.
C26_NoSurvivingPairForward ==
  Called("removeDuplicateQuizzes") =>
    \A i, j \in 1..Len(quizCollection) :
      (i < j /\ FuzzyCandidates(quizCollection[i], quizCollection[j]))
        => ~MeetsCriterion(quizCollection[i], quizCollection[j])

\* a run that removed a record and left a pair that pass 3 compared and
\* that meets the criterion only when counted from the later record
C26_Witness ==
  /\ Called("removeDuplicateQuizzes")
  /\ last.ret > 0
  /\ \E i, j \in 1..Len(quizCollection) :
       /\ i < j
       /\ FuzzyCandidates(quizCollection[i], quizCollection[j])
       /\ ~MeetsCriterion(quizCollection[i], quizCollection[j])
       /\ MeetsCriterion(quizCollection[j], quizCollection[i])

---------------------------------------------------------------------------
(* The uniqueIds a deduplication run leaves *)

\* the uniqueIds the records of a collection carry
UniqueIdsOf(coll) == {UniqueIdOf(coll[i]) : i \in 1..Len(coll)} \ {""}

\* C27: deduplication never erases a logical quiz.  Every uniqueId carried
\* by some stored record before removeDuplicateQuizzes is carried by some
\* stored record after it, also when a record with the same title and no
\* uniqueId is stored alongside.
C27_UniqueIdsSurvive ==
  Called("removeDuplicateQuizzes") =>
    UniqueIdsOf(last.pre) \subseteq UniqueIdsOf(quizCollection)

---------------------------------------------------------------------------
(* syncQuizzes and the uniqueness of uniqueId *)

\* no two records of the collection carry the same uniqueId
NoSharedUniqueId(coll) ==
  \A i, j \in 1..Len(coll) :
    (i # j /\ UniqueIdOf(coll[i]) # "") =>
      UniqueIdOf(coll[i]) # UniqueIdOf(coll[j])

\* the positions of the public entries of the batch for u
PublicEntriesFor(u) ==
  {k \in WithUniqueId(last.arg, u) : IsPublicTrue(last.arg[k])}

\* the batch names u in public entries only and no record carried u
CreatesOnce(u) ==
  /\ WithUniqueId(last.pre, u) = {}
  /\ PublicEntriesFor(u) # {}
  /\ PublicEntriesFor(u) = WithUniqueId(last.arg, u)

\* C28: sync preserves uniqueId uniqueness.  If no two stored records share
\* a uniqueId before syncQuizzes, none do after it, whatever the batch; for
\* a uniqueId the batch names several times and the store did not hold, the
\* first entry creates the record and every later entry updates that same
\* record, adding 1 to its version.
C28_SyncKeepsUniqueIdsUnique ==
  (Called("syncQuizzes") /\ NoSharedUniqueId(last.pre)) =>
    /\ NoSharedUniqueId(quizCollection)
    /\ \A u \in ClientUniqueIds :
         CreatesOnce(u) =>
           LET first == CHOOSE k \in PublicEntriesFor(u) :
                          \A m \in PublicEntriesFor(u) : k <= m
               start == IF VersionOf(last.arg[first]) # 0
                        THEN last.arg[first].version ELSE 1
           IN  /\ Cardinality(WithUniqueId(quizCollection, u)) = 1
               /\ \A k \in WithUniqueId(quizCollection, u) :
                    /\ quizCollection[k].id \notin Ids(last.pre)
                    /\ quizCollection[k].version
                         = start + Cardinality(PublicEntriesFor(u)) - 1

\* a batch with two public entries for a uniqueId that was not stored
C28_Witness ==
  /\ Called("syncQuizzes")
  /\ NoSharedUniqueId(last.pre)
  /\ last.pre # <<>>
  /\ \E u \in ClientUniqueIds :
       /\ CreatesOnce(u)
       /\ Cardinality(PublicEntriesFor(u)) > 1
       /\ Cardinality(WithUniqueId(quizCollection, u)) = 1

---------------------------------------------------------------------------
(* syncQuizzes called a second time with the batch of the call before *)

ResyncEntries ==
  { [uniqueId |-> "u1", title |-> TitleA, questions |-> NoQuestions,
     isPublic |-> TRUE, createdAt |-> 1],
    [uniqueId |-> "u1", title |-> TitleB, questions |-> NoQuestions,
     isPublic |-> TRUE, version |-> 1, createdAt |-> 1],
    [uniqueId |-> "u2", title |-> TitleA, questions |-> NoQuestions,
     isPublic |-> TRUE, createdAt |-> 1] }

ResyncBatches == SeqsUpTo(ResyncEntries, MaxBatch)

\* storage.syncQuizzes with the batch of the syncQuizzes call that has just
\* returned
Resync(now) ==
  LET st == syncQuizzes(Store, last.arg, now)
  IN  /\ Called("syncQuizzes")
      /\ st.nextId <= MaxQuizzes + 1
      /\ quizCollection' = st.coll
      /\ quizCurrentId' = st.nextId
      /\ last' = Observe("resync", last.arg, getPublicQuizzes(st.coll))
      /\ UNCHANGED probe

NextResync ==
  \/ \E quiz \in FrameCreateInputs, now \in Times :
       Create(quiz, now, MaxQuizzes)
  \/ \E batch \in ResyncBatches, now \in Times :
       Sync(batch, now, MaxQuizzes)
  \/ \E now \in Times : Resync(now)
  \/ Respond

SpecResync == Init /\ [][NextResync]_vars

\* the batch is one of public records
PublicBatch == \A k \in 1..Len(last.arg) : IsPublicTrue(last.arg[k])

\* the entries of the batch that the record at position k of the store is
\* looked up by
MatchingEntries(k) ==
  {e \in 1..Len(last.arg) :
     /\ UniqueIdOf(last.arg[e]) # ""
     /\ getQuizByUniqueId(last.pre, UniqueIdOf(last.arg[e])) = k}

\* the second call added and removed nothing and changed versions only
SameButVersions ==
  /\ Len(quizCollection) = Len(last.pre)
  /\ \A k \in 1..Len(last.pre) :
       /\ DOMAIN quizCollection[k] = DOMAIN last.pre[k]
       /\ \A f \in DOMAIN last.pre[k] \ {"version"} :
            quizCollection[k][f] = last.pre[k][f]

\* C29 as stated: after the second of two syncQuizzes calls with the same
\* batch of public records the store holds the records it held after the
\* first, with the same ids, uniqueIds and field values, except that the
\* version of every record matched by the batch is exactly 1 higher.
C29_ResyncAddsOne ==
  (Called("resync") /\ PublicBatch) =>
    /\ SameButVersions
    /\ \A k \in 1..Len(last.pre) :
         quizCollection[k].version
           = last.pre[k].version + (IF MatchingEntries(k) # {} THEN 1 ELSE 0)

\* C29: the same, except that the version of every record matched by the
\* batch is higher by the number of entries of the batch that carry its
\* uniqueId (by exactly 1 when the batch names the uniqueId once).
C29_ResyncAddsOnePerEntry ==
  (Called("resync") /\ PublicBatch) =>
    /\ SameButVersions
    /\ \A k \in 1..Len(last.pre) :
         quizCollection[k].version
           = last.pre[k].version + Cardinality(MatchingEntries(k))

\* a second call whose batch matched one record once and left another
\* record unmatched
C29_Witness ==
  /\ Called("resync")
  /\ PublicBatch
  /\ \E k, m \in 1..Len(last.pre) :
       /\ Cardinality(MatchingEntries(k)) = 1
       /\ MatchingEntries(m) = {}
       /\ quizCollection[k].version = last.pre[k].version + 1
       /\ quizCollection[m] = last.pre[m]

---------------------------------------------------------------------------
(* A batch with a public and a non-public entry for one uniqueId *)

\* C30: private wins inside one batch.  When the batch of syncQuizzes holds
\* a public entry and a non-public entry for the same uniqueId, the public
\* entries are applied before the non-public ones are processed, so after
\* the call no stored record carries that uniqueId, in whichever order the
\* two entries stand in the batch.
C30_PrivateWinsInBatch ==
  Called("syncQuizzes") =>
    \A u \in ClientUniqueIds :
      ( /\ \E k \in WithUniqueId(last.arg, u) : IsPublicTrue(last.arg[k])
        /\ \E k \in WithUniqueId(last.arg, u) : ~IsPublicTrue(last.arg[k]) )
      => WithUniqueId(quizCollection, u) = {}

---------------------------------------------------------------------------
(* DbStorage.removeDuplicateQuizzes, and the two backends on one collection *)

\* Pass 1 of DbStorage: one row per uniqueId.
\* ds = [map, quizzesToKeep, duplicatesToRemove]
RECURSIVE DbPass1(_, _, _)
DbPass1(allQuizzes, i, ds) ==
  IF i > Len(allQuizzes) THEN ds
  ELSE LET quiz == allQuizzes[i]
           uid == UniqueIdOf(quiz)
           existingQuiz == ds.map[uid]
       IN  IF uid = ""
           THEN DbPass1(allQuizzes, i + 1,
                        [ds EXCEPT !.quizzesToKeep = @ \cup {quiz.id}])
           ELSE IF uid \notin DOMAIN ds.map
           THEN DbPass1(allQuizzes, i + 1,
                        [ds EXCEPT !.map = MapPut(@, uid, quiz),
                                   !.quizzesToKeep = @ \cup {quiz.id}])
           ELSE IF keepNew(quiz, existingQuiz)
           THEN DbPass1(allQuizzes, i + 1,
                  [map |-> MapPut(ds.map, uid, quiz),
                   quizzesToKeep |->
                     (ds.quizzesToKeep \ {existingQuiz.id}) \cup {quiz.id},
                   duplicatesToRemove |->
                     Append(ds.duplicatesToRemove, existingQuiz)])
           ELSE DbPass1(allQuizzes, i + 1,
                  [ds EXCEPT !.duplicatesToRemove = Append(@, quiz)])

\* Pass 2 of DbStorage: one row per content hash among the kept rows that
\* have no uniqueId
RECURSIVE DbPass2(_, _, _)
DbPass2(allQuizzes, i, ds) ==
  IF i > Len(allQuizzes) THEN ds
  ELSE LET quiz == allQuizzes[i]
           contentHash == createContentHash(quiz)
           existingQuiz == ds.map[contentHash]
       IN  IF quiz.id \notin ds.quizzesToKeep \/ UniqueIdOf(quiz) # ""
           THEN DbPass2(allQuizzes, i + 1, ds)
           ELSE IF contentHash \notin DOMAIN ds.map
           THEN DbPass2(allQuizzes, i + 1,
                        [ds EXCEPT !.map = MapPut(@, contentHash, quiz)])
           ELSE IF keepNew(quiz, existingQuiz)
           THEN DbPass2(allQuizzes, i + 1,
                  [map |-> MapPut(ds.map, contentHash, quiz),
                   quizzesToKeep |->
                     (ds.quizzesToKeep \ {existingQuiz.id}) \cup {quiz.id},
                   duplicatesToRemove |->
                     Append(ds.duplicatesToRemove, existingQuiz)])
           ELSE DbPass2(allQuizzes, i + 1,
                  [ds EXCEPT !.quizzesToKeep = @ \ {quiz.id},
                             !.duplicatesToRemove = Append(@, quiz)])

\* titleMap of DbStorage: the rows of quizzesToKeep grouped by normalized
\* title, the groups in the order their titles first occur
RECURSIVE DbTitleGroups(_, _, _, _)
DbTitleGroups(allQuizzes, i, quizzesToKeep, titleMap) ==
  IF i > Len(allQuizzes) THEN titleMap
  ELSE LET quiz == allQuizzes[i]
           normalizedTitle == Normalized(quiz.title)
           held == {g \in 1..Len(titleMap) :
                      titleMap[g].title = normalizedTitle}
       IN  IF quiz.id \notin quizzesToKeep
           THEN DbTitleGroups(allQuizzes, i + 1, quizzesToKeep, titleMap)
           ELSE IF held = {}
           THEN DbTitleGroups(allQuizzes, i + 1, quizzesToKeep,
                  Append(titleMap, [title |-> normalizedTitle,
                                    quizzes |-> <<quiz>>]))
           ELSE DbTitleGroups(allQuizzes, i + 1, quizzesToKeep,
                  [titleMap EXCEPT
                     ![CHOOSE g \in held : TRUE].quizzes = Append(@, quiz)])

\* faulty variant of DbPass3Group: of two similar rows the first one is
\* always the one removed
RECURSIVE DbPass3GroupDropsFirst(_, _, _, _)
DbPass3GroupDropsFirst(quizzesWithSameTitle, i, j, ds) ==
  IF i > Len(quizzesWithSameTitle) THEN ds
  ELSE IF quizzesWithSameTitle[i].id \notin ds.quizzesToKeep
          \/ j > Len(quizzesWithSameTitle)
  THEN DbPass3GroupDropsFirst(quizzesWithSameTitle, i + 1, i + 2, ds)
  ELSE LET quiz1 == quizzesWithSameTitle[i]
           quiz2 == quizzesWithSameTitle[j]
       IN  IF quiz2.id \notin ds.quizzesToKeep
              \/ ~Comparable(quiz1, quiz2)
              \/ ~SimilarEnough(quiz1, quiz2)
           THEN DbPass3GroupDropsFirst(quizzesWithSameTitle, i, j + 1, ds)
           ELSE DbPass3GroupDropsFirst(quizzesWithSameTitle, i + 1, i + 2,
                  [ds EXCEPT !.quizzesToKeep = @ \ {quiz1.id},
                             !.duplicatesToRemove = Append(@, quiz1)])

\* Pass 3 of DbStorage on the rows of one title: the loops over i and
\* j > i, which test and change quizzesToKeep itself
RECURSIVE DbPass3Group(_, _, _, _)
DbPass3Group(quizzesWithSameTitle, i, j, ds) ==
  IF i > Len(quizzesWithSameTitle) THEN ds
  ELSE IF quizzesWithSameTitle[i].id \notin ds.quizzesToKeep
          \/ j > Len(quizzesWithSameTitle)
  THEN DbPass3Group(quizzesWithSameTitle, i + 1, i + 2, ds)
  ELSE LET quiz1 == quizzesWithSameTitle[i]
           quiz2 == quizzesWithSameTitle[j]
       IN  IF quiz2.id \notin ds.quizzesToKeep
              \/ ~Comparable(quiz1, quiz2)
              \/ ~SimilarEnough(quiz1, quiz2)
           THEN DbPass3Group(quizzesWithSameTitle, i, j + 1, ds)
           ELSE IF keepNew(quiz1, quiz2)
           THEN DbPass3Group(quizzesWithSameTitle, i, j + 1,
                  [ds EXCEPT !.quizzesToKeep = @ \ {quiz2.id},
                             !.duplicatesToRemove = Append(@, quiz2)])
           ELSE DbPass3Group(quizzesWithSameTitle, i + 1, i + 2,
                  [ds EXCEPT !.quizzesToKeep = @ \ {quiz1.id},
                             !.duplicatesToRemove = Append(@, quiz1)])

RECURSIVE DbPass3(_, _, _)
DbPass3(titleMap, g, ds) ==
  IF g > Len(titleMap) THEN ds
  ELSE IF Len(titleMap[g].quizzes) > 1
  THEN DbPass3(titleMap, g + 1, DbPass3Group(titleMap[g].quizzes, 1, 2, ds))
  ELSE DbPass3(titleMap, g + 1, ds)

\* the final loop of DbStorage: deleteQuiz on every row of
\* duplicatesToRemove, counting the calls that deleted a row
RECURSIVE DbDeleteDuplicates(_, _, _)
DbDeleteDuplicates(res, duplicatesToRemove, i) ==
  IF i > Len(duplicatesToRemove) THEN res
  ELSE LET step == DbDeleteStep(res.coll, duplicatesToRemove[i])
       IN  DbDeleteDuplicates(
             [coll |-> step.rows,
              count |-> IF step.deleted THEN res.count + 1 ELSE res.count],
             duplicatesToRemove, i + 1)

\* DbStorage.removeDuplicateQuizzes on the rows getAllQuizzes returned, with
\* no other request in between: [coll, count]
DbStorageRemoveDuplicateQuizzes(allQuizzes) ==
  LET d1 == DbPass1(allQuizzes, 1,
                    [map |-> EmptyMap, quizzesToKeep |-> {},
                     duplicatesToRemove |-> <<>>])
      d2 == DbPass2(allQuizzes, 1, [d1 EXCEPT !.map = EmptyMap])
      d3 == DbPass3(DbTitleGroups(allQuizzes, 1, d2.quizzesToKeep, <<>>),
                    1, d2)
  IN  DbDeleteDuplicates([coll |-> allQuizzes, count |-> 0],
                         d3.duplicatesToRemove, 1)

\* POST /api/quizzes/cleanup served by DbStorage, the table holding the
\* records of quizCollection in the same order
DbRemoveDuplicateQuizzes ==
  LET res == DbStorageRemoveDuplicateQuizzes(quizCollection)
  IN  /\ Called("idle")
      /\ quizCollection' = res.coll
      /\ last' = Observe("dbRemoveDuplicateQuizzes", <<>>, res.count)
      /\ UNCHANGED <<quizCurrentId, probe>>

\* one collection, cleaned up by either backend
NextBackends ==
  \/ \E quiz \in DedupCreateInputs, now \in Times :
       Create(quiz, now, MaxDedupQuizzes)
  \/ \E id \in 1..MaxDedupQuizzes, upd \in DedupUpdateInputs :
       UpdateQuiz(id, upd)
  \/ RemoveDuplicateQuizzes
  \/ DbRemoveDuplicateQuizzes
  \/ Respond

SpecBackends == Init /\ [][NextBackends]_vars

IdsOf(coll) == {coll[k].id : k \in 1..Len(coll)}

\* the third loop marked a record of the collection the call started from
Pass3Removed(allQuizzes) ==
  Len(DuplicatePlan(allQuizzes).removed)
    > Len(PlanAfterPass2(allQuizzes).removed)

\* C31: backend equivalence of deduplication.  On the same collection in
\* the same storage order, MemStorage.removeDuplicateQuizzes and
\* DbStorage.removeDuplicateQuizzes retain the same set of record ids and
\* return the same count: whichever backend has just run, the other one
\* would have left the same ids and returned the same number.
C31_BackendsAgree ==
  /\ Called("dbRemoveDuplicateQuizzes") =>
       /\ IdsOf(quizCollection) = IdsOf(removeDuplicateQuizzes(last.pre).coll)
       /\ last.ret = removeDuplicateQuizzes(last.pre).count
  /\ Called("removeDuplicateQuizzes") =>
       /\ IdsOf(quizCollection)
            = IdsOf(DbStorageRemoveDuplicateQuizzes(last.pre).coll)
       /\ last.ret = DbStorageRemoveDuplicateQuizzes(last.pre).count

\* DbStorage has cleaned a collection of three records in which the third
\* loop found a duplicate
C31_Witness ==
  /\ Called("dbRemoveDuplicateQuizzes")
  /\ Len(last.pre) = MaxDedupQuizzes
  /\ Pass3Removed(last.pre)
  /\ last.ret > 0
  /\ Len(quizCollection) < Len(last.pre)

---------------------------------------------------------------------------
(* The service worker (dist/public/service-worker.js) *)
(*                                                                         *)
(* A URL is its origin, a string given letter group by letter group, and   *)
(* the segments of its path.  The worker's state is kept in probe: its     *)
(* lifecycle state, the caches of the origin by name (each the set of URLs *)
(* it holds a response for), and the last fetch event with the response    *)
(* the page received.  The message listener only calls skipWaiting, which  *)
(* the install listener has already called; it changes nothing here.       *)

CACHE_NAME == "bmv-quiz-cache-v1"

\* the cache a previous version of the worker may have left behind
OldCacheName == "bmv-quiz-cache-v0"

\* self.location.origin, and two other origins: one whose string starts
\* with this origin's string, one that does not
Origin == <<"https://app">>
LookalikeOrigin == <<"https://app", ".example">>
OtherOrigin == <<"https://cdn">>

SameOrigin(path) == [origin |-> Origin, path |-> path]

OFFLINE_PAGE == SameOrigin(<<"offline.html">>)

OFFLINE_ASSETS ==
  { SameOrigin(<<"">>),
    SameOrigin(<<"index.html">>),
    SameOrigin(<<"offline.html">>),
    SameOrigin(<<"manifest.json">>),
    SameOrigin(<<"icons", "icon-192x192.png">>),
    SameOrigin(<<"src", "main.tsx">>),
    SameOrigin(<<"src", "index.css">>) }

\* the URLs the page asks for
RequestUrls ==
  { SameOrigin(<<"">>),
    SameOrigin(<<"offline.html">>),
    SameOrigin(<<"quiz">>),
    SameOrigin(<<"api", "quizzes">>),
    SameOrigin(<<"docs", "api", "intro">>),
    [origin |-> LookalikeOrigin, path |-> <<"quiz">>],
    [origin |-> OtherOrigin, path |-> <<"lib.js">>] }

RequestModes == {"navigate", "cors"}

\* what fetch(event.request) does: it rejects, or resolves with a status
NetworkAnswers == {"rejects", "200", "404"}

NoRequest == [url |-> SameOrigin(<<>>), mode |-> "none"]

NoResponse == [from |-> "none", url |-> SameOrigin(<<>>), status |-> "none"]

\* url.startsWith(self.location.origin); the path begins with "/"
StartsWithOrigin(url) == IsPrefix(Origin, url.origin)

\* url.includes('/api/'): a path segment api followed by a further segment
IncludesApi(url) ==
  \E k \in 1..(Len(url.path) - 1) : url.path[k] = "api"

\* caches.match(url): a response some cache of the origin holds for the
\* URL, or undefined, with which respondWith fails
cachesMatch(caches, url) ==
  IF \E name \in DOMAIN caches : url \in caches[name]
  THEN [from |-> "cache", url |-> url, status |-> "200"]
  ELSE [from |-> "error", url |-> url, status |-> "none"]

FromNetwork(request, answer) ==
  [from |-> "network", url |-> request.url, status |-> answer]

\* the fetch listener on one request, fetch(event.request) answering as
\* given: whether the worker responded, whether it called fetch, the
\* response the page receives and the caches afterwards
onFetch(caches, request, answer) ==
  IF ~StartsWithOrigin(request.url)
  THEN [responded |-> FALSE, fetched |-> FALSE, caches |-> caches,
        response |-> [from |-> "browser", url |-> request.url,
                      status |-> IF answer = "rejects" THEN "none"
                                 ELSE answer]]
  ELSE IF IncludesApi(request.url)
  THEN [responded |-> TRUE, fetched |-> TRUE, caches |-> caches,
        response |-> IF answer = "rejects"
                     THEN [from |-> "worker", url |-> request.url,
                           status |-> "200"]
                     ELSE FromNetwork(request, answer)]
  ELSE IF request.mode = "navigate"
  THEN [responded |-> TRUE, fetched |-> TRUE, caches |-> caches,
        response |-> IF answer = "rejects"
                     THEN cachesMatch(caches, OFFLINE_PAGE)
                     ELSE FromNetwork(request, answer)]
  ELSE [responded |-> TRUE, fetched |-> TRUE,
        caches |-> IF answer = "200"
                   THEN [caches EXCEPT ![CACHE_NAME] = @ \cup {request.url}]
                   ELSE caches,
        response |-> IF answer = "rejects"
                     THEN cachesMatch(caches, request.url)
                     ELSE FromNetwork(request, answer)]

WorkerAt(state) == probe.kind = "worker" /\ probe.state = state

\* the worker script has been registered; an earlier version may have left
\* its cache
InitWorker ==
  /\ quizCollection = <<>>
  /\ quizCurrentId = 1
  /\ last = Idle
  /\ \E old \in SUBSET {SameOrigin(<<"">>), SameOrigin(<<"quiz">>)} :
       probe = [kind |-> "worker", state |-> "installing",
                caches |-> [name \in {OldCacheName} |-> old],
                request |-> NoRequest, response |-> NoResponse,
                responded |-> FALSE, fetched |-> FALSE]

\* the install listener: cache.addAll(OFFLINE_ASSETS) succeeds when every
\* asset is fetched, and skipWaiting lets the worker activate at once;
\* when an asset cannot be fetched the installation fails
InstallWorker(online) ==
  /\ WorkerAt("installing")
  /\ probe' = IF online
              THEN [probe EXCEPT
                      !.state = "installed",
                      !.caches = [name \in DOMAIN @ \cup {CACHE_NAME} |->
                                    IF name = CACHE_NAME THEN OFFLINE_ASSETS
                                    ELSE @[name]]]
              ELSE [probe EXCEPT !.state = "redundant"]
  /\ UNCHANGED <<quizCollection, quizCurrentId, last>>

\* the activate listener: every cache with another name is deleted
ActivateWorker ==
  /\ WorkerAt("installed")
  /\ probe' = [probe EXCEPT
                 !.state = "activated",
                 !.caches = [name \in DOMAIN @ \cap {CACHE_NAME} |-> @[name]]]
  /\ UNCHANGED <<quizCollection, quizCurrentId, last>>

\* a fetch event of a page the activated worker controls
FetchEvent(request, answer) ==
  LET out == onFetch(probe.caches, request, answer)
  IN  /\ WorkerAt("activated")
      /\ probe' = [probe EXCEPT
                     !.caches = out.caches,
                     !.request = request,
                     !.response = out.response,
                     !.responded = out.responded,
                     !.fetched = out.fetched]
      /\ UNCHANGED <<quizCollection, quizCurrentId, last>>

NextWorker ==
  \/ \E online \in BOOLEAN : InstallWorker(online)
  \/ ActivateWorker
  \/ \E url \in RequestUrls, mode \in RequestModes,
        answer \in NetworkAnswers :
       FetchEvent([url |-> url, mode |-> mode], answer)

SpecWorker == InitWorker /\ [][NextWorker]_vars

\* the last fetch event was a page navigation within the origin that is
\* not an API request
PageNavigation ==
  /\ WorkerAt("activated")
  /\ probe.request.mode = "navigate"
  /\ probe.request.url.origin = Origin
  /\ ~IncludesApi(probe.request.url)

\* C32: service worker navigation policy.  A same-origin page navigation
\* that is not an API request is answered cache-first: from the cache,
\* without the network, when a cached response for the page exists, and by
\* contacting the network only otherwise.
C32_NavigateCacheFirst ==
  PageNavigation =>
    IF probe.request.url \in probe.caches[CACHE_NAME]
    THEN /\ probe.response.from = "cache"
         /\ probe.response.url = probe.request.url
         /\ ~probe.fetched
    ELSE probe.fetched

====
